---- MODULE Spec2Model ----
(***************************************************************************)
(* State-machine model of shield-qr-styler (src/unnamed/part_006, the      *)
(* library's index.js): the process-wide shape registry, shape and colour  *)
(* resolution, option merging and the SVG document builder.                *)
(*                                                                         *)
(* JavaScript values are modelled as follows.                              *)
(*   - a null / undefined string        : Null                             *)
(*   - a null / undefined object        : Undefined                        *)
(*   - an object with ordered keys      : a sequence of [k, v] pairs       *)
(*   - a property read obj[k]           : PropGet, which also sees the     *)
(*     keys every object literal inherits from Object.prototype            *)
(*   - a thrown TypeError               : a result with status "TypeError" *)
(***************************************************************************)
EXTENDS Integers, Sequences, FiniteSets, TLC

VARIABLES
    SHAPE_LIBRARY,      \* the registry: ordered map category key -> category
    SHIELD_PATHS,       \* the object bound by `SHIELD_PATHS = SHAPE_LIBRARY.shield.variations`
    DEFAULT_OPTIONS,    \* the module-level defaults object
    COLOR_PRESETS,      \* the module-level preset table
    call,               \* the latest call: its arguments, the registry it saw, its result
    memo,               \* an earlier generateShapeQR call, kept for comparison
    everPresent,        \* every category key the registry has ever held
    nRegistered         \* number of registerShape calls so far

vars == <<SHAPE_LIBRARY, SHIELD_PATHS, DEFAULT_OPTIONS, COLOR_PRESETS,
          call, memo, everPresent, nRegistered>>

----------------------------------------------------------------------------
(* Bounds of the model *)

MaxRegistrations == 2       \* registerShape calls per behaviour
MaxVersion == 2             \* QR versions 1..MaxVersion (grid side 4v+17)

----------------------------------------------------------------------------
(* JavaScript objects as ordered maps *)

Null == "null"                      \* a missing string (selector, colour)
Undefined == [undefined |-> TRUE]   \* a missing object

Truthy(x) == x # Null                \* on strings
TruthyObj(x) == x # Undefined        \* on objects

Or(a, b) == IF a # Null THEN a ELSE b            \* a || b on strings
OrObj(a, b) == IF a # Undefined THEN a ELSE b    \* a || b on objects

Has(m, k) == \E i \in 1..Len(m) : m[i].k = k

Get(m, k) == m[CHOOSE i \in 1..Len(m) : m[i].k = k].v

Keys(m) == [i \in 1..Len(m) |-> m[i].k]

KeySet(m) == {m[i].k : i \in 1..Len(m)}

\* obj[k] = v : an existing key keeps its position, a new key goes last
Put(m, k, v) ==
    IF Has(m, k)
    THEN [i \in 1..Len(m) |-> IF m[i].k = k THEN [k |-> k, v |-> v] ELSE m[i]]
    ELSE Append(m, [k |-> k, v |-> v])

\* { ...a, ...b }
RECURSIVE Spread(_, _)
Spread(a, b) ==
    IF b = <<>> THEN a
    ELSE Spread(Put(a, Head(b).k, Head(b).v), Tail(b))

\* Keys that every object literal inherits from Object.prototype; reading one
\* of them gives a function object, which is truthy and has no fields.
InheritedKeys == {"constructor"}

\* obj[k] for an object literal: own property, inherited property, undefined
PropGet(m, k, inherited) ==
    IF Has(m, k) THEN Get(m, k)
    ELSE IF k \in InheritedKeys THEN inherited
    ELSE Undefined

----------------------------------------------------------------------------
(* Shape library *)

\* A shape variation; `path` stands for the label/viewBox/path strings.
Shape(path, w, h, x, y, size, bare) ==
    [path |-> path, width |-> w, height |-> h,
     qrArea |-> [x |-> x, y |-> y, size |-> size], bare |-> bare]

\* What a lookup yields when it hits an inherited key: a function object.
\* It is truthy; every field read from it is undefined.
FunctionObject == [path |-> "[Function: Object]"]

IsShape(s) == s # Undefined /\ s # FunctionObject

Category(label, variations) ==
    [label |-> label, hasVariations |-> TRUE, variations |-> variations]

\* A category definition given without a `variations` key (Partial<ShapeCategory>)
CategoryNoVariations(label) ==
    [label |-> label, hasVariations |-> FALSE, variations |-> <<>>]

KV(k, v) == [k |-> k, v |-> v]

BUILTIN_SHAPE_LIBRARY == <<
    KV("none", Category("None", <<
        KV("default", Shape("none/default", 300, 300, 8, 8, 284, TRUE)) >>)),
    KV("square", Category("Square", <<
        KV("sharp", Shape("square/sharp", 300, 300, 18, 18, 264, FALSE)),
        KV("rounded", Shape("square/rounded", 300, 300, 18, 18, 264, FALSE)),
        KV("pill", Shape("square/pill", 300, 300, 24, 24, 252, FALSE)) >>)),
    KV("rectangle", Category("Rectangle", <<
        KV("portrait", Shape("rectangle/portrait", 260, 360, 14, 64, 232, FALSE)),
        KV("landscape", Shape("rectangle/landscape", 360, 260, 64, 14, 232, FALSE)),
        KV("ticket", Shape("rectangle/ticket", 260, 360, 22, 64, 216, FALSE)) >>)),
    KV("circle", Category("Circle", <<
        KV("perfect", Shape("circle/perfect", 300, 300, 52, 52, 196, FALSE)),
        KV("squircle", Shape("circle/squircle", 300, 300, 40, 40, 220, FALSE)) >>)),
    KV("oval", Category("Oval", <<
        KV("vertical", Shape("oval/vertical", 280, 360, 38, 78, 204, FALSE)),
        KV("horizontal", Shape("oval/horizontal", 360, 280, 78, 38, 204, FALSE)) >>)),
    KV("diamond", Category("Diamond", <<
        KV("classic", Shape("diamond/classic", 300, 340, 76, 96, 148, FALSE)),
        KV("soft", Shape("diamond/soft", 300, 340, 78, 98, 144, FALSE)) >>)),
    KV("heart", Category("Heart", <<
        KV("classic", Shape("heart/classic", 300, 280, 62, 42, 176, FALSE)),
        KV("rounded", Shape("heart/rounded", 300, 280, 58, 38, 184, FALSE)) >>)),
    KV("hexagon", Category("Hexagon", <<
        KV("sharp", Shape("hexagon/sharp", 300, 340, 56, 72, 188, FALSE)),
        KV("rounded", Shape("hexagon/rounded", 300, 340, 58, 74, 184, FALSE)) >>)),
    KV("shield", Category("Shield", <<
        KV("classic", Shape("shield/classic", 300, 340, 46, 36, 208, FALSE)),
        KV("badge", Shape("shield/badge", 300, 330, 44, 42, 212, FALSE)),
        KV("modern", Shape("shield/modern", 300, 310, 36, 30, 228, FALSE)),
        KV("emblem", Shape("shield/emblem", 300, 350, 42, 34, 216, FALSE)) >>))
>>

\* whether cat.variations is defined: it is not for a definition registered
\* without the key, nor for the function object an inherited key yields
HasVariations(cat) == cat # FunctionObject /\ cat # Undefined /\ cat.hasVariations

\* cat.variations || {}
VariationsOf(cat) == IF HasVariations(cat) THEN cat.variations ELSE <<>>

----------------------------------------------------------------------------
(* Shape resolution *)

\* A design config: the three selector fields; `nil` marks a null/undefined design
Design(cat, var, shape) ==
    [nil |-> FALSE, shapeCategory |-> cat, shapeVariation |-> var, shape |-> shape]

NilDesign == [nil |-> TRUE, shapeCategory |-> Null, shapeVariation |-> Null, shape |-> Null]

\* design?.field
Field(design, f) == IF design.nil THEN Null ELSE design[f]

Resolved(category, variation, shape) ==
    [status |-> "ok", category |-> category, variation |-> variation, shape |-> shape]

\* Object.keys(undefined) and undefined[key] throw
Thrown == [status |-> "TypeError", category |-> Null, variation |-> Null, shape |-> Undefined]

FirstKey(m) == IF Len(m) > 0 THEN m[1].k ELSE Null       \* Object.keys(m)[0]
FirstValue(m) == IF Len(m) > 0 THEN m[1].v ELSE Undefined    \* Object.values(m)[0]

\* the first branch of resolveShape: `cat` is SHAPE_LIBRARY[design.shapeCategory]
resolveInCategory(design, cat) ==
    IF ~HasVariations(cat) THEN Thrown
    ELSE LET vs     == cat.variations
             varKey == Or(design.shapeVariation, FirstKey(vs))
             shape  == OrObj(PropGet(vs, varKey, FunctionObject), FirstValue(vs))
         IN  Resolved(design.shapeCategory, varKey, shape)

\* the legacy branch: `design.shape` is truthy
NotResolved == [status |-> "none", category |-> Null, variation |-> Null, shape |-> Undefined]

resolveLegacy(lib, shieldPaths, design) ==
    IF TruthyObj(PropGet(shieldPaths, design.shape, FunctionObject))
    THEN Resolved("shield", design.shape, PropGet(shieldPaths, design.shape, FunctionObject))
    ELSE IF TruthyObj(PropGet(lib, design.shape, FunctionObject))
    THEN LET cat == PropGet(lib, design.shape, FunctionObject) IN
         IF ~HasVariations(cat) THEN Thrown
         ELSE Resolved(design.shape, FirstKey(cat.variations),
                       PropGet(cat.variations, FirstKey(cat.variations), FunctionObject))
    ELSE NotResolved

resolveDefault(shieldPaths) ==
    Resolved("shield", "classic", PropGet(shieldPaths, "classic", FunctionObject))

resolveShape(lib, shieldPaths, design) ==
    IF Truthy(Field(design, "shapeCategory"))
       /\ TruthyObj(PropGet(lib, design.shapeCategory, FunctionObject))
    THEN resolveInCategory(design, PropGet(lib, design.shapeCategory, FunctionObject))
    ELSE IF Truthy(Field(design, "shape"))
            /\ resolveLegacy(lib, shieldPaths, design) # NotResolved
    THEN resolveLegacy(lib, shieldPaths, design)
    ELSE resolveDefault(shieldPaths)

----------------------------------------------------------------------------
(* Registration *)

\* a merge in which the definitions already registered win
mergeKeepingOld(old, def) ==
    [label |-> def.label,
     hasVariations |-> TRUE,
     variations |-> Spread(VariationsOf(def), VariationsOf(old))]

mergeCategory(old, def) ==
    [label |-> def.label,
     hasVariations |-> TRUE,
     variations |-> Spread(VariationsOf(old), VariationsOf(def))]

\* a registration that starts the library over with the one category
registerShapeAfresh(lib, categoryKey, categoryDef, merge) == << KV(categoryKey, categoryDef) >>

registerShape(lib, categoryKey, categoryDef, merge) ==
    IF merge /\ TruthyObj(PropGet(lib, categoryKey, FunctionObject))
    THEN Put(lib, categoryKey, mergeCategory(PropGet(lib, categoryKey, FunctionObject), categoryDef))
    ELSE Put(lib, categoryKey, categoryDef)

----------------------------------------------------------------------------
(* Library access *)

\* getShapeLibrary returns the registry object itself, not a copy
getShapeLibrary(lib) == lib

getShapeCategories(lib) == Keys(lib)

getShapeVariations(lib, category) ==
    IF TruthyObj(PropGet(lib, category, FunctionObject))
    THEN IF HasVariations(PropGet(lib, category, FunctionObject))
         THEN [status |-> "ok", keys |-> Keys(PropGet(lib, category, FunctionObject).variations)]
         ELSE [status |-> "TypeError", keys |-> <<>>]
    ELSE [status |-> "ok", keys |-> <<>>]

getShieldShapes(shieldPaths) == Keys(shieldPaths)

----------------------------------------------------------------------------
(* Colour presets and colour resolution *)

\* outlineWidth is held in tenths (3 -> 30, 2.5 -> 25)
Preset(label, bg, fg, outline, fOuter, fInner, width) ==
    [label |-> label, background |-> bg, foreground |-> fg, outline |-> outline,
     finderOuter |-> fOuter, finderInner |-> fInner, outlineWidth |-> width]

BUILTIN_COLOR_PRESETS == <<
    KV("cyber",      Preset("Cyber",      "#0a0e27", "#00d4ff", "#00d4ff", "#00ff88", "#00d4ff", "30")),
    KV("stealth",    Preset("Stealth",    "#1a1a1a", "#c8c8c8", "#555555", "#ffffff", "#999999", "20")),
    KV("royal",      Preset("Royal",      "#1a0a3e", "#c9a0ff", "#ffd700", "#ffd700", "#c9a0ff", "30")),
    KV("military",   Preset("Military",   "#1a2e1a", "#4caf50", "#66bb6a", "#a5d6a7", "#4caf50", "25")),
    KV("fire",       Preset("Fire",       "#1a0000", "#ff4444", "#ff6600", "#ffaa00", "#ff4444", "30")),
    KV("ocean",      Preset("Ocean",      "#001a33", "#0088cc", "#00aaff", "#00ddff", "#0088cc", "25")),
    KV("monochrome", Preset("Monochrome", "#ffffff", "#000000", "#222222", "#000000", "#000000", "25"))
>>

\* obj.field of a preset, or of the function object an inherited key yields
PresetField(p, f) == IF p = FunctionObject THEN Null ELSE p[f]

\* A design as resolveColors reads it
ColorDesign(customColors, preset) ==
    [nil |-> FALSE, customColors |-> customColors, preset |-> preset]

NilColorDesign == [nil |-> TRUE, customColors |-> Undefined, preset |-> Null]

resolveColors(presets, design) ==
    IF ~design.nil /\ TruthyObj(design.customColors)
    THEN design.customColors
    ELSE LET preset == PropGet(presets, Or(Field(design, "preset"), "cyber"), FunctionObject) IN
         IF TruthyObj(preset)
         THEN [label |-> Null,
               background  |-> PresetField(preset, "background"),
               foreground  |-> PresetField(preset, "foreground"),
               outline     |-> PresetField(preset, "outline"),
               finderOuter |-> PresetField(preset, "finderOuter"),
               finderInner |-> PresetField(preset, "finderInner"),
               outlineWidth |-> PresetField(preset, "outlineWidth")]
         ELSE Get(presets, "cyber")

----------------------------------------------------------------------------
(* Options: tagged JavaScript values and mergeOptions *)

\* Fractions are held in hundredths (moduleScale 0.82 -> 82), outlineWidth in
\* tenths, every other number as written.
Str(x)  == [t |-> "string", v |-> x]
Num(x)  == [t |-> "number", v |-> x]
Bool(x) == [t |-> "boolean", v |-> x]
NullV   == [t |-> "null"]
UndefV  == [t |-> "undefined"]
Arr(x)  == [t |-> "array", v |-> x]
\* an object value carries the identity of the object it refers to
Obj(ref, m) == [t |-> "object", ref |-> ref, v |-> m]

DEFAULT_OPTIONS_VALUE == <<
    KV("shapeCategory", Str("shield")),
    KV("shapeVariation", Str("classic")),
    KV("shape", NullV),
    KV("moduleStyle", Str("circle")),
    KV("moduleScale", Num(82)),
    KV("finderScale", Num(100)),
    KV("finderPattern", Str("pattern")),
    KV("finderOuterStyle", Str("rounded")),
    KV("finderInnerStyle", Str("rounded")),
    KV("errorCorrection", Str("H")),
    KV("colors", Obj("DEFAULT_OPTIONS.colors", <<
        KV("background", Str("#0a0e27")),
        KV("foreground", Str("#00d4ff")),
        KV("outline", Str("#00d4ff")),
        KV("finderOuter", NullV),
        KV("finderInner", NullV),
        KV("outlineWidth", Str("30")) >>)),
    KV("gradient", NullV),
    KV("glowEffect", Bool(FALSE)),
    KV("glowColor", NullV),
    KV("glowIntensity", Num(8)),
    KV("innerBorder", Bool(FALSE)),
    KV("innerBorderWidth", Num(1)),
    KV("innerBorderColor", NullV),
    KV("innerBorderOffset", Num(8)),
    KV("centerClear", Bool(FALSE)),
    KV("centerSize", Num(22)),
    KV("decorativeFill", Bool(TRUE)),
    KV("decorativeDensity", Num(35)),
    KV("decorativeOpacity", Num(25)),
    KV("decorativeSafeMargin", Num(6)),
    KV("decorativeShieldInset", Num(8)),
    KV("decorativeScale", Num(65)),
    KV("preset", NullV)
>>

\* obj[k] on an options object (no inherited key is read from these)
Opt(m, k) == IF Has(m, k) THEN Get(m, k) ELSE UndefV

IsTruthy(v) ==
    CASE v.t = "null" -> FALSE
      [] v.t = "undefined" -> FALSE
      [] v.t = "boolean" -> v.v
      [] v.t = "number" -> v.v # 0
      [] v.t = "string" -> v.v # ""
      [] OTHER -> TRUE

IsNullish(v) == v.t = "null" \/ v.t = "undefined"

\* a || b and a ?? b on tagged values
OrV(a, b) == IF IsTruthy(a) THEN a ELSE b
Coalesce(a, b) == IF IsNullish(a) THEN b ELSE a

\* `defaults[key] || {}` as the first argument of the recursive call
ObjOrEmpty(v) == IF v.t = "object" THEN v.v ELSE <<>>

\* mergeOptions: a shallow copy of defaults, then each own key of overrides;
\* an undefined value is skipped, a plain object is merged recursively into a
\* new object, anything else (null, array, scalar) is assigned as it is.
RECURSIVE mergeOptionsInto(_, _, _)
mergeOptionsInto(result, defaults, overrides) ==
    IF overrides = <<>> THEN result
    ELSE LET key == Head(overrides).k
             val == Head(overrides).v
             merged ==
                 IF val.t = "undefined" THEN result
                 ELSE IF val.t = "object"
                 THEN Put(result, key,
                          Obj("fresh", mergeOptionsInto(ObjOrEmpty(Opt(defaults, key)),
                                                        ObjOrEmpty(Opt(defaults, key)), val.v)))
                 ELSE Put(result, key, val)
         IN  mergeOptionsInto(merged, defaults, Tail(overrides))

mergeOptions(defaults, overrides) == mergeOptionsInto(defaults, defaults, overrides)

\* p.field as a tagged value: undefined when p is no preset object
PresetValue(p, f) == IF p = FunctionObject THEN UndefV ELSE Str(p[f])

\* generateShapeQR, "Apply color preset": opts.colors is rebound to a new object
applyPreset(opts, presets) ==
    IF IsTruthy(Opt(opts, "preset"))
       /\ TruthyObj(PropGet(presets, Opt(opts, "preset").v, FunctionObject))
    THEN LET p == PropGet(presets, Opt(opts, "preset").v, FunctionObject) IN
         Put(opts, "colors", Obj("fresh",
             Spread(ObjOrEmpty(Opt(opts, "colors")), <<
                 KV("background", PresetValue(p, "background")),
                 KV("foreground", PresetValue(p, "foreground")),
                 KV("outline", PresetValue(p, "outline")),
                 KV("finderOuter", PresetValue(p, "finderOuter")),
                 KV("finderInner", PresetValue(p, "finderInner")),
                 KV("outlineWidth", PresetValue(p, "outlineWidth")) >>)))
    ELSE opts

\* The writes generateShapeQR makes into objects that existed before the call
\* (each a pair of the object's identity and its new content): there are none,
\* mergeOptions and the preset step build new objects only.
WritesInPlace(opts, presets) ==
    IF IsTruthy(Opt(opts, "preset"))
       /\ TruthyObj(PropGet(presets, Opt(opts, "preset").v, FunctionObject))
       /\ Opt(opts, "colors").t = "object"
    THEN << [ref |-> Opt(opts, "colors").ref,
             v |-> ObjOrEmpty(Opt(applyPreset(opts, presets), "colors"))] >>
    ELSE <<>>

heapWrites(opts, presets) == <<>>

\* a module-level object after the writes: a nested object is replaced when a
\* write names its identity
RECURSIVE ApplyWrites(_, _)
ApplyWrites(obj, writes) ==
    IF writes = <<>> THEN obj
    ELSE ApplyWrites(
            [i \in 1..Len(obj) |->
                IF obj[i].v.t = "object" /\ obj[i].v.ref = Head(writes).ref
                THEN KV(obj[i].k, Obj(obj[i].v.ref, Head(writes).v))
                ELSE obj[i]],
            Tail(writes))

----------------------------------------------------------------------------
(* The external encoder: QRCode.create(data, { errorCorrectionLevel }) *)

ModuleCount(version) == 4 * version + 17

\* the dark cells of a standard finder block, in block coordinates
FinderDark(lr, lc) ==
    lr = 0 \/ lr = 6 \/ lc = 0 \/ lc = 6 \/ (lr >= 2 /\ lr <= 4 /\ lc >= 2 /\ lc <= 4)

\* A data string is named by the symbol it encodes to: its version and the
\* pattern of the cells outside the three finder blocks.
DataPatternDark(pattern, r, c) ==
    CASE pattern = "full"    -> TRUE
      [] pattern = "blank"   -> FALSE
      [] pattern = "checker" -> (r + c) % 2 = 0
      [] pattern = "stripes" -> ((3 * r + c) % 5) < 3
      [] OTHER               -> (r * c) % 3 = 1

QRCreate(data) == [size |-> ModuleCount(data.version), pattern |-> data.pattern]

\* modules.get(row, col)
modulesGet(modules, r, c) ==
    LET N == modules.size IN
    IF r < 7 /\ c < 7 THEN FinderDark(r, c)
    ELSE IF r < 7 /\ c >= N - 7 THEN FinderDark(r, c - (N - 7))
    ELSE IF r >= N - 7 /\ c < 7 THEN FinderDark(r - (N - 7), c)
    ELSE DataPatternDark(modules.pattern, r, c)

----------------------------------------------------------------------------
(* Finder pattern detection *)

getFinderPatternPositions(moduleCount) == <<
    [row |-> 0, col |-> 0],
    [row |-> 0, col |-> moduleCount - 7],
    [row |-> moduleCount - 7, col |-> 0] >>

\* a classification whose blocks are one cell too wide
RECURSIVE classifyWideBlocks(_, _, _)
classifyWideBlocks(row, col, positions) ==
    IF positions = <<>> THEN Null
    ELSE LET pos == Head(positions) IN
         IF row >= pos.row /\ row <= pos.row + 7 /\ col >= pos.col /\ col <= pos.col + 7
         THEN LET lr == row - pos.row
                  lc == col - pos.col
              IN  IF lr = 0 \/ lr = 6 \/ lc = 0 \/ lc = 6 THEN "outer"
                  ELSE IF lr >= 2 /\ lr <= 4 /\ lc >= 2 /\ lc <= 4 THEN "inner"
                  ELSE "space"
         ELSE classifyWideBlocks(row, col, Tail(positions))

\* 'outer', 'inner', 'space', or Null for a cell in no block
RECURSIVE classifyFinderModule(_, _, _)
classifyFinderModule(row, col, positions) ==
    IF positions = <<>> THEN Null
    ELSE LET pos == Head(positions) IN
         IF row >= pos.row /\ row < pos.row + 7 /\ col >= pos.col /\ col < pos.col + 7
         THEN LET lr == row - pos.row
                  lc == col - pos.col
              IN  IF lr = 0 \/ lr = 6 \/ lc = 0 \/ lc = 6 THEN "outer"
                  ELSE IF lr >= 2 /\ lr <= 4 /\ lc >= 2 /\ lc <= 4 THEN "inner"
                  ELSE "space"
         ELSE classifyFinderModule(row, col, Tail(positions))

----------------------------------------------------------------------------
(* Module renderers.  An element keeps the grid cell it was drawn for and   *)
(* the scale it was drawn at; its pixel box follows from them, the shape's  *)
(* qrArea and the module count.                                             *)

\* `${value}` in a template string
Show(v) ==
    CASE v.t = "string" -> v.v
      [] v.t = "null" -> "null"
      [] v.t = "undefined" -> "undefined"
      [] OTHER -> "[object]"

StyleTag(style) ==
    IF style \in {Str("circle"), Str("dot")} THEN "circle"
    ELSE IF style \in {Str("rounded"), Str("roundedSquare")} THEN "roundedRect"
    ELSE IF style = Str("diamond") THEN "polygon"
    ELSE "rect"

\* renderModule(x, y, size, style, scale, fill) for the cell (row, col) of
\* the grid `layer` ("module" for the QR grid, "deco" for the decorative grid)
renderModule(layer, row, col, style, scale, fill) ==
    [tag |-> StyleTag(style), layer |-> layer, row |-> row, col |-> col,
     scale |-> scale, fill |-> fill]

\* renderSolidFinderShape for the finder block at pos; the shape is `cells`
\* cells wide (7, 5 or 3), times the finder scale, about the block's centre
renderSolidFinderShape(pos, cells, scale, style, fill) ==
    [tag |-> StyleTag(style), layer |-> "finder", row |-> pos.row, col |-> pos.col,
     cells |-> cells, scale |-> scale, fill |-> fill]

\* the same test taken at the cell's upper left corner instead of its centre
isClearedAtCorner(opts, moduleCount, row, col) ==
    IF ~IsTruthy(Opt(opts, "centerClear")) THEN FALSE
    ELSE LET dx2 == 2 * col - moduleCount
             dy2 == 2 * row - moduleCount
             cs  == Opt(opts, "centerSize").v
         IN  cs > 0 /\ (dx2 * dx2 + dy2 * dy2) * 2500 < moduleCount * moduleCount * cs * cs

\* isCleared(row, col): the cell centre is nearer than dataSize * centerSize to
\* the centre of the data area.  With the cell size as unit, the centre of
\* cell (row, col) is at (col + 1/2, row + 1/2) and the data area's at (N/2, N/2),
\* so the test is  sqrt(dx^2 + dy^2) < N * centerSize  with centerSize in hundredths.
isCleared(opts, moduleCount, row, col) ==
    IF ~IsTruthy(Opt(opts, "centerClear")) THEN FALSE
    ELSE LET dx2 == 2 * col + 1 - moduleCount
             dy2 == 2 * row + 1 - moduleCount
             cs  == Opt(opts, "centerSize").v
         IN  cs > 0 /\ (dx2 * dx2 + dy2 * dy2) * 2500 < moduleCount * moduleCount * cs * cs

\* the cells 0..n*n-1 in row-major order, as the nested for loops visit them
AllCells(n) == [i \in 1..(n * n) |-> [row |-> (i - 1) \div n, col |-> (i - 1) % n]]

\* the concatenation of a sequence of sequences
RECURSIVE Flatten(_)
Flatten(seqs) == IF seqs = <<>> THEN <<>> ELSE Head(seqs) \o Flatten(Tail(seqs))

\* The run scan of the bar styles: i runs over 0..count (one past the end, so
\* that a run reaching the edge is closed); connect[i] tells whether cell i
\* joins a run.  Returns the runs in the order they are emitted.
\* a scan that stops at the last cell and so never closes a run that reaches it
RECURSIVE scanRunsOpenEnd(_, _, _, _, _)
scanRunsOpenEnd(connect, count, i, runStart, acc) ==
    IF i >= count THEN acc
    ELSE IF connect[i]
    THEN scanRunsOpenEnd(connect, count, i + 1, IF runStart = -1 THEN i ELSE runStart, acc)
    ELSE IF runStart # -1
    THEN scanRunsOpenEnd(connect, count, i + 1, -1,
                         Append(acc, [start |-> runStart, len |-> i - runStart]))
    ELSE scanRunsOpenEnd(connect, count, i + 1, -1, acc)

RECURSIVE scanRuns(_, _, _, _, _)
scanRuns(connect, count, i, runStart, acc) ==
    IF i > count THEN acc
    ELSE IF i < count /\ connect[i]
    THEN scanRuns(connect, count, i + 1, IF runStart = -1 THEN i ELSE runStart, acc)
    ELSE IF runStart # -1
    THEN scanRuns(connect, count, i + 1, -1,
                  Append(acc, [start |-> runStart, len |-> i - runStart]))
    ELSE scanRuns(connect, count, i + 1, -1, acc)

\* the rounded rectangle of one run: `line` is the row (barH) or column (barV)
barRect(layer, dir, line, run, scale, fill) ==
    [tag |-> "roundedRect", layer |-> layer, dir |-> dir,
     row |-> IF dir = "barH" THEN line ELSE run.start,
     col |-> IF dir = "barH" THEN run.start ELSE line,
     len |-> run.len, scale |-> scale, fill |-> fill]

\* a neighbour test that takes every cell beyond the grid's border as set
pondPartNoBounds(grid, rows, cols, r, c) ==
    LET gd(y, x) == IF y >= 0 /\ y < rows /\ x >= 0 /\ x < cols THEN grid[y][x] ELSE TRUE IN
    [row |-> r, col |-> c,
     tD |-> gd(r - 1, c), rD |-> gd(r, c + 1), bD |-> gd(r + 1, c), lD |-> gd(r, c - 1)]

\* a neighbour test that sees no neighbour at all
pondPartIsolated(grid, rows, cols, r, c) ==
    [row |-> r, col |-> c, tD |-> FALSE, rD |-> FALSE, bD |-> FALSE, lD |-> FALSE]

\* one sub-path of the pond path: the cell and which of its four neighbours
\* are set (an edge with a set neighbour is flush, any other is inset; a
\* corner is rounded when both edges that meet in it are inset)
pondPart(grid, rows, cols, r, c) ==
    LET gd(y, x) == y >= 0 /\ y < rows /\ x >= 0 /\ x < cols /\ grid[y][x] IN
    [row |-> r, col |-> c,
     tD |-> gd(r - 1, c), rD |-> gd(r, c + 1), bD |-> gd(r + 1, c), lD |-> gd(r, c - 1)]

pondPath(layer, parts, scale, fill) ==
    [tag |-> "path", layer |-> layer, style |-> "pond", parts |-> parts,
     scale |-> scale, fill |-> fill]

\* The cell size in the model's length unit: a cell is CellUnits wide, so that
\* half of (1 - scale) of a cell, the scale in hundredths, is a whole number.
CellUnits == 200

\* inset = cellSize * (1 - moduleScale) / 2
pondInset(scale) == (CellUnits * (100 - scale.v)) \div 200

\* the edges with a corner rounded as soon as one of its two edges is inset
pondEdgesAnyCorner(part, scale) ==
    LET x0 == part.col * CellUnits
        y0 == part.row * CellUnits
        inset == pondInset(scale)
    IN  [t  |-> IF part.tD THEN y0 ELSE y0 + inset,
         ri |-> IF part.rD THEN x0 + CellUnits ELSE x0 + CellUnits - inset,
         b  |-> IF part.bD THEN y0 + CellUnits ELSE y0 + CellUnits - inset,
         l  |-> IF part.lD THEN x0 ELSE x0 + inset,
         tlR |-> ~part.tD \/ ~part.lD, trR |-> ~part.tD \/ ~part.rD,
         brR |-> ~part.bD \/ ~part.rD, blR |-> ~part.bD \/ ~part.lD]

\* the four edges of a sub-path, measured from the data origin, and its four
\* corner flags: t, ri, b, l and tlR, trR, brR, blR
pondEdges(part, scale) ==
    LET x0 == part.col * CellUnits
        y0 == part.row * CellUnits
        inset == pondInset(scale)
    IN  [t  |-> IF part.tD THEN y0 ELSE y0 + inset,
         ri |-> IF part.rD THEN x0 + CellUnits ELSE x0 + CellUnits - inset,
         b  |-> IF part.bD THEN y0 + CellUnits ELSE y0 + CellUnits - inset,
         l  |-> IF part.lD THEN x0 ELSE x0 + inset,
         tlR |-> ~part.tD /\ ~part.lD, trR |-> ~part.tD /\ ~part.rD,
         brR |-> ~part.bD /\ ~part.rD, blR |-> ~part.bD /\ ~part.lD]

\* The boxes an element of the module grid covers, measured from the data
\* origin with a cell CellUnits wide: the square of side size * scale about the
\* cell's centre (renderModule), the square of side cells * cellSize * fScale
\* about the finder block's centre (solid finder), the run's rectangle shrunk by
\* halfGap on every side (bars), the four edges of each sub-path (pond).
elementBoxes(e) ==
    IF "parts" \in DOMAIN e
    THEN { [l |-> pondEdges(e.parts[i], e.scale).l, t |-> pondEdges(e.parts[i], e.scale).t,
            r |-> pondEdges(e.parts[i], e.scale).ri, b |-> pondEdges(e.parts[i], e.scale).b] :
           i \in 1..Len(e.parts) }
    ELSE IF "dir" \in DOMAIN e
    THEN LET halfGap == (CellUnits * (100 - e.scale.v)) \div 200
             w == IF e.dir = "barH" THEN e.len ELSE 1
             h == IF e.dir = "barH" THEN 1 ELSE e.len
         IN  { [l |-> e.col * CellUnits + halfGap, t |-> e.row * CellUnits + halfGap,
                r |-> (e.col + w) * CellUnits - halfGap,
                b |-> (e.row + h) * CellUnits - halfGap] }
    ELSE IF "cells" \in DOMAIN e
    THEN LET half == (e.cells * CellUnits * e.scale.v) \div 200
             cxF  == e.col * CellUnits + (7 * CellUnits) \div 2
             cyF  == e.row * CellUnits + (7 * CellUnits) \div 2
         IN  { [l |-> cxF - half, t |-> cyF - half, r |-> cxF + half, b |-> cyF + half] }
    ELSE LET r  == (CellUnits * e.scale.v) \div 200
             cx == e.col * CellUnits + CellUnits \div 2
             cy == e.row * CellUnits + CellUnits \div 2
         IN  { [l |-> cx - r, t |-> cy - r, r |-> cx + r, b |-> cy + r] }

\* a data grid whose cells are one module (qrArea.size / moduleCount) wide
dataGeometryModuleWide(shape, moduleCount) ==
    [den     |-> CellUnits * moduleCount * moduleCount,
     originX |-> CellUnits * moduleCount * moduleCount * shape.qrArea.x
                 + 3 * (CellUnits \div 2) * moduleCount * shape.qrArea.size,
     originY |-> CellUnits * moduleCount * moduleCount * shape.qrArea.y
                 + 3 * (CellUnits \div 2) * moduleCount * shape.qrArea.size,
     unit    |-> shape.qrArea.size * moduleCount]

\* The quiet zone and the data grid in pixels, as fractions over `den`:
\* dataOrigin = qrArea.x + 1.5 * moduleSize with moduleSize = size / N, and
\* cellSize = (size - 3 * moduleSize) / N; `unit` is one length unit of the
\* boxes above, cellSize / CellUnits.
dataGeometry(shape, moduleCount) ==
    [den     |-> CellUnits * moduleCount * moduleCount,
     originX |-> CellUnits * moduleCount * moduleCount * shape.qrArea.x
                 + 3 * (CellUnits \div 2) * moduleCount * shape.qrArea.size,
     originY |-> CellUnits * moduleCount * moduleCount * shape.qrArea.y
                 + 3 * (CellUnits \div 2) * moduleCount * shape.qrArea.size,
     unit    |-> shape.qrArea.size * (moduleCount - 3)]

\* the box in pixels (over geo.den)
pixelBox(geo, box) ==
    [l |-> geo.originX + box.l * geo.unit, t |-> geo.originY + box.t * geo.unit,
     r |-> geo.originX + box.r * geo.unit, b |-> geo.originY + box.b * geo.unit]

----------------------------------------------------------------------------
(* Gradient builder *)

NaNV == [t |-> "NaN"]

\* Math.round((i / (n - 1)) * 100) for 0 <= i < n; 0/0 is NaN
EvenStop(i, n) ==
    IF n = 1 THEN NaNV
    ELSE Num((200 * i + (n - 1)) \div (2 * (n - 1)))

\* stops[i]
ArrayAt(arr, i) == IF i >= 0 /\ i < Len(arr.v) THEN arr.v[i + 1] ELSE UndefV

\* x1, y1, x2, y2 in percent for the angles the model uses:
\* rad = (angle - 90) deg; x = round(50 + sin(..) * 50), y = round(50 + cos(..) * 50)
GradientLine(angle) ==
    CASE angle = 0   -> [x1 |-> 100, y1 |-> 50, x2 |-> 0,   y2 |-> 50]
      [] angle = 45  -> [x1 |-> 85,  y1 |-> 15, x2 |-> 15,  y2 |-> 85]
      [] angle = 90  -> [x1 |-> 50,  y1 |-> 0,  x2 |-> 50,  y2 |-> 100]
      [] angle = 135 -> [x1 |-> 15,  y1 |-> 15, x2 |-> 85,  y2 |-> 85]
      [] angle = 180 -> [x1 |-> 0,   y1 |-> 50, x2 |-> 100, y2 |-> 50]

\* buildGradientDef(gradient): colors.map throws when colors is no array; an
\* empty array maps to no stop at all and the element is still returned
buildGradientDef(gradient) ==
    LET colors == Opt(gradient, "colors")
        stops  == Opt(gradient, "stops")
        angle  == IF Opt(gradient, "angle").t = "undefined" THEN Num(135)
                  ELSE Opt(gradient, "angle")
    IN  IF colors.t # "array" THEN [status |-> "TypeError", el |-> Undefined]
        ELSE LET stopElements ==
                     [i \in 1..Len(colors.v) |->
                         [offset |-> IF IsTruthy(stops) THEN ArrayAt(stops, i - 1)
                                     ELSE EvenStop(i - 1, Len(colors.v)),
                          color  |-> colors.v[i]]]
             IN  [status |-> "ok",
                  el |-> IF Opt(gradient, "type") = Str("radial")
                         THEN [tag |-> "radialGradient", id |-> "qrGradient",
                               stops |-> stopElements]
                         ELSE [tag |-> "linearGradient", id |-> "qrGradient",
                               line |-> GradientLine(angle.v), stops |-> stopElements]]

----------------------------------------------------------------------------
(* buildSVG: finder patterns and data modules *)

\* a data pass that does not look at the finder blocks
EligibleInFinders(modules, moduleCount, opts, row, col) ==
    /\ modulesGet(modules, row, col)
    /\ ~isCleared(opts, moduleCount, row, col)

\* the cell may join a data shape: dark, in no finder block, not cleared
Eligible(modules, moduleCount, opts, row, col) ==
    /\ modulesGet(modules, row, col)
    /\ classifyFinderModule(row, col, getFinderPatternPositions(moduleCount)) = Null
    /\ ~isCleared(opts, moduleCount, row, col)

finderElements(modules, moduleCount, opts, colors, fillColor) ==
    LET finderPositions == getFinderPatternPositions(moduleCount)
        finderOuter == Show(OrV(Opt(colors, "finderOuter"), Opt(colors, "foreground")))
        finderInner == Show(OrV(Opt(colors, "finderInner"), Opt(colors, "foreground")))
        fScale      == Coalesce(Opt(opts, "finderScale"), Num(100))
        fOuterStyle == OrV(Opt(opts, "finderOuterStyle"), Str("rounded"))
        fInnerStyle == OrV(Opt(opts, "finderInnerStyle"), Str("rounded"))
    IN  IF Opt(opts, "finderPattern") = Str("solid")
        THEN Flatten([i \in 1..Len(finderPositions) |-> <<
                renderSolidFinderShape(finderPositions[i], 7, fScale, fOuterStyle, finderOuter),
                renderSolidFinderShape(finderPositions[i], 5, fScale, fOuterStyle,
                                       Show(Opt(colors, "background"))),
                renderSolidFinderShape(finderPositions[i], 3, fScale, fInnerStyle, finderInner) >>])
        ELSE LET drawn == SelectSeq(AllCells(moduleCount), LAMBDA cell :
                     /\ modulesGet(modules, cell.row, cell.col)
                     /\ classifyFinderModule(cell.row, cell.col, finderPositions)
                            \in {"outer", "inner"})
             IN  [i \in 1..Len(drawn) |->
                     LET finderType ==
                             classifyFinderModule(drawn[i].row, drawn[i].col, finderPositions)
                     IN  renderModule("module", drawn[i].row, drawn[i].col,
                             IF finderType = "outer" THEN fOuterStyle ELSE fInnerStyle,
                             fScale,
                             IF finderType = "outer" THEN finderOuter ELSE finderInner)]

\* the pond style over a boolean grid of `rows` x `cols` cells: one path, with
\* one sub-path for each set cell, or nothing when no cell is set
pondElements(layer, rows, cols, grid, scale, fill) ==
    LET cells == SelectSeq([i \in 1..(rows * cols) |->
                               [row |-> (i - 1) \div cols, col |-> (i - 1) % cols]],
                           LAMBDA cell : grid[cell.row][cell.col])
        parts == [i \in 1..Len(cells) |->
                     pondPart(grid, rows, cols, cells[i].row, cells[i].col)]
    IN  IF Len(parts) > 0 THEN << pondPath(layer, parts, scale, fill) >> ELSE <<>>

\* the bar styles over a boolean grid: the runs of every row (barH) or column
\* (barV), lines in order, the runs of a line in order
barElements(layer, dir, rows, cols, grid, scale, fill) ==
    LET lines  == IF dir = "barH" THEN rows ELSE cols
        count  == IF dir = "barH" THEN cols ELSE rows
        runsOf(line) ==
            scanRuns([i \in 0..(count - 1) |->
                         IF dir = "barH" THEN grid[line][i] ELSE grid[i][line]],
                     count, 0, -1, <<>>)
    IN  Flatten([n \in 1..lines |->
            LET runs == runsOf(n - 1) IN
            [j \in 1..Len(runs) |-> barRect(layer, dir, n - 1, runs[j], scale, fill)]])

\* one element for each set cell, row by row
cellElements(layer, rows, cols, grid, style, scale, fill) ==
    LET cells == SelectSeq([i \in 1..(rows * cols) |->
                               [row |-> (i - 1) \div cols, col |-> (i - 1) % cols]],
                           LAMBDA cell : grid[cell.row][cell.col])
    IN  [i \in 1..Len(cells) |->
            renderModule(layer, cells[i].row, cells[i].col, style, scale, fill)]

\* the style dispatch shared by the data pass and the decorative pass
styledElements(layer, moduleStyle, rows, cols, grid, scale, fill) ==
    IF moduleStyle = Str("pond") THEN pondElements(layer, rows, cols, grid, scale, fill)
    ELSE IF moduleStyle = Str("barH") THEN barElements(layer, "barH", rows, cols, grid, scale, fill)
    ELSE IF moduleStyle = Str("barV") THEN barElements(layer, "barV", rows, cols, grid, scale, fill)
    ELSE cellElements(layer, rows, cols, grid, moduleStyle, scale, fill)

dataElements(modules, moduleCount, opts, fillColor) ==
    LET grid == [r \in 0..(moduleCount - 1) |-> [c \in 0..(moduleCount - 1) |->
                    Eligible(modules, moduleCount, opts, r, c)]]
    IN  styledElements("module", Opt(opts, "moduleStyle"), moduleCount, moduleCount,
                       grid, Opt(opts, "moduleScale"), fillColor)

----------------------------------------------------------------------------
(* buildSVG: the decorative grid.  The cell size is                         *)
(* (qrArea.size - 3 * moduleSize) / moduleCount = size * (N - 3) / N^2; the  *)
(* model computes with this fraction where the code computes with doubles.   *)

\* 2654435761 = 0x9E3779B1 and 2246822519 = 0x85EBCA77, low byte first
HashKX == << 177, 121, 55, 158 >>
HashKY == << 119, 202, 235, 133 >>

\* the low 32 bits of d[1] + d[2] * 2^8 + d[3] * 2^16 + d[4] * 2^24, as 4 bytes
Bytes4(d) ==
    LET s2 == d[2] + d[1] \div 256
        s3 == d[3] + s2 \div 256
        s4 == d[4] + s3 \div 256
    IN  << d[1] % 256, s2 % 256, s3 % 256, s4 % 256 >>

\* (g * K) | 0 for g = num / den and K given by its bytes: the integer part
\* of the product, reduced modulo 2^32 (long division, top byte first)
MulToInt32(num, den, kb) ==
    LET c4 == num * kb[4]
        c3 == (c4 % den) * 256 + num * kb[3]
        c2 == (c3 % den) * 256 + num * kb[2]
        c1 == (c2 % den) * 256 + num * kb[1]
    IN  Bytes4(<< c1 \div den, c2 \div den, c3 \div den, c4 \div den >>)

\* Math.imul(a, b) >>> 0
imul(a, b) ==
    Bytes4(<< a[1] * b[1],
              a[1] * b[2] + a[2] * b[1],
              a[1] * b[3] + a[2] * b[2] + a[3] * b[1],
              a[1] * b[4] + a[2] * b[3] + a[3] * b[2] + a[4] * b[1] >>)

\* h / 4294967296 <= density, the density in hundredths
HashAtMost(h, density) ==
    LET hHi == h[4] * 256 + h[3]
        hLo == h[2] * 256 + h[1]
        tHi == (density * 65536) \div 100
        tLo == ((density * 65536) % 100) * 65536      \* in hundredths
    IN  density >= 0 /\ (hHi < tHi \/ (hHi = tHi /\ hLo * 100 <= tLo))

CeilDiv(a, b) == (a + b - 1) \div b

\* an exclusion test that forgets the safety margin
decoExcludedNoMargin(shape, moduleCount, safeMargin, dr, dc) ==
    LET num == shape.qrArea.size * (moduleCount - 3)
        den == moduleCount * moduleCount
    IN  /\ (2 * dc + 1) * num >= 2 * den * shape.qrArea.x
        /\ (2 * dc + 1) * num <= 2 * den * (shape.qrArea.x + shape.qrArea.size)
        /\ (2 * dr + 1) * num >= 2 * den * shape.qrArea.y
        /\ (2 * dr + 1) * num <= 2 * den * (shape.qrArea.y + shape.qrArea.size)

\* the centre (cx, cy) of the decorative cell (dr, dc) is inside the exclusion
\* rectangle: cx = (2 dc + 1) * num / (2 den) with decoSize = num / den
decoExcluded(shape, moduleCount, safeMargin, dr, dc) ==
    LET num  == shape.qrArea.size * (moduleCount - 3)
        den  == moduleCount * moduleCount
        exclLeft   == shape.qrArea.x - safeMargin
        exclTop    == shape.qrArea.y - safeMargin
        exclRight  == shape.qrArea.x + shape.qrArea.size + safeMargin
        exclBottom == shape.qrArea.y + shape.qrArea.size + safeMargin
    IN  /\ (2 * dc + 1) * num >= 2 * den * exclLeft
        /\ (2 * dc + 1) * num <= 2 * den * exclRight
        /\ (2 * dr + 1) * num >= 2 * den * exclTop
        /\ (2 * dr + 1) * num <= 2 * den * exclBottom

\* decoGrid, dRows x dCols: a cell is set when its centre is outside the
\* exclusion rectangle around qrArea and its hash is at most the density
decoGridOf(shape, moduleCount, opts) ==
    LET safeMargin == Coalesce(Opt(opts, "decorativeSafeMargin"), Num(6)).v
        density    == OrV(Opt(opts, "decorativeDensity"), Num(35)).v
        num  == shape.qrArea.size * (moduleCount - 3)     \* decoSize = num / den
        den  == moduleCount * moduleCount
        dCols == CeilDiv(shape.width * den, num)
        dRows == CeilDiv(shape.height * den, num)
        hx == [dc \in 0..(dCols - 1) |-> MulToInt32(dc * num, den, HashKX)]
        hy == [dr \in 0..(dRows - 1) |-> MulToInt32(dr * num, den, HashKY)]
    IN  [rows |-> dRows, cols |-> dCols,
         grid |-> [dr \in 0..(dRows - 1) |-> [dc \in 0..(dCols - 1) |->
                     /\ ~decoExcluded(shape, moduleCount, safeMargin, dr, dc)
                     /\ HashAtMost(imul(hx[dc], hy[dr]), density)]]]

decorativeElements(shape, moduleCount, opts, colors, fillColor) ==
    IF shape.bare \/ ~IsTruthy(Opt(opts, "decorativeFill")) THEN <<>>
    ELSE LET deco == decoGridOf(shape, moduleCount, opts)
             decoFill == IF IsTruthy(Opt(opts, "gradient"))
                         THEN Show(Opt(colors, "foreground")) ELSE fillColor
         IN  << [tag |-> "clipPath", id |-> "shapeClipInset", path |-> shape.path,
                 inset |-> Coalesce(Opt(opts, "decorativeShieldInset"), Num(8))],
                [tag |-> "g", clip |-> "shapeClipInset",
                 opacity |-> Coalesce(Opt(opts, "decorativeOpacity"), Num(25))] >>
             \o styledElements("deco", Opt(opts, "moduleStyle"), deco.rows, deco.cols, deco.grid,
                               Coalesce(Opt(opts, "decorativeScale"), Num(65)), decoFill)
             \o << [tag |-> "/g"] >>

----------------------------------------------------------------------------
(* buildSVG: the document *)

buildSVG(modules, moduleCount, shape, opts) ==
    IF Opt(opts, "colors").t # "object" THEN [status |-> "TypeError", doc |-> <<>>]
    ELSE
    LET colors == Opt(opts, "colors").v
        bare   == shape.bare
        gradient == IF IsTruthy(Opt(opts, "gradient"))
                    THEN buildGradientDef(ObjOrEmpty(Opt(opts, "gradient")))
                    ELSE [status |-> "none", el |-> Undefined]
        glow == IF ~bare /\ IsTruthy(Opt(opts, "glowEffect"))
                THEN << [tag |-> "filter", id |-> "glow",
                         stdDeviation |-> Opt(opts, "glowIntensity"),
                         floodColor |-> Show(OrV(Opt(opts, "glowColor"),
                                                 Opt(colors, "outline")))] >>
                ELSE <<>>
        background ==
            IF bare THEN [tag |-> "rect", layer |-> "background",
                          fill |-> Show(Opt(colors, "background"))]
            ELSE [tag |-> "path", layer |-> "background", path |-> shape.path,
                  fill |-> Show(Opt(colors, "background")),
                  filter |-> IF IsTruthy(Opt(opts, "glowEffect")) THEN "glow" ELSE Null]
        fillColor == IF IsTruthy(Opt(opts, "gradient")) THEN "url(#qrGradient)"
                     ELSE Show(Opt(colors, "foreground"))
        borders ==
            IF bare THEN <<>>
            ELSE (IF IsTruthy(Opt(opts, "innerBorder"))
                  THEN << [tag |-> "path", layer |-> "innerBorder", path |-> shape.path,
                           stroke |-> Show(OrV(Opt(opts, "innerBorderColor"),
                                               Opt(colors, "outline"))),
                           strokeWidth |-> Opt(opts, "innerBorderWidth"),
                           offset |-> Opt(opts, "innerBorderOffset")] >>
                  ELSE <<>>)
                 \o << [tag |-> "path", layer |-> "outline", path |-> shape.path,
                        stroke |-> Show(Opt(colors, "outline")),
                        strokeWidth |-> Show(Opt(colors, "outlineWidth"))] >>
    IN  IF gradient.status = "TypeError" THEN [status |-> "TypeError", doc |-> <<>>]
        ELSE [status |-> "ok", doc |->
                << [tag |-> "svg", width |-> shape.width, height |-> shape.height],
                   [tag |-> "defs"],
                   [tag |-> "clipPath", id |-> "shapeClip", path |-> shape.path] >>
                \o (IF gradient.status = "ok" THEN << gradient.el >> ELSE <<>>)
                \o glow
                \o << [tag |-> "/defs"],
                      background,
                      [tag |-> "roundedRect", layer |-> "quietZone",
                       fill |-> Show(Opt(colors, "background")), clip |-> "shapeClip"],
                      [tag |-> "g", clip |-> IF bare THEN Null ELSE "shapeClip"] >>
                \o finderElements(modules, moduleCount, opts, colors, fillColor)
                \o dataElements(modules, moduleCount, opts, fillColor)
                \o << [tag |-> "/g"] >>
                \o decorativeElements(shape, moduleCount, opts, colors, fillColor)
                \o borders
                \o << [tag |-> "/svg"] >>]

----------------------------------------------------------------------------
(* generateShapeQR *)

\* a selector field of the merged options as resolveShape reads it
Selector(v) == IF v.t = "string" /\ v.v # "" THEN v.v ELSE Null

DesignOf(opts) ==
    Design(Selector(Opt(opts, "shapeCategory")), Selector(Opt(opts, "shapeVariation")),
           Selector(Opt(opts, "shape")))

\* generateShapeQR(data, options) against the module-level objects; reading
\* shapeDefinition.qrArea.size throws when the resolved shape is no shape object
generateShapeQR(lib, shieldPaths, defaults, presets, data, options) ==
    LET opts     == applyPreset(mergeOptions(defaults, options), presets)
        resolved == resolveShape(lib, shieldPaths, DesignOf(opts))
        qrData   == QRCreate(data)
    IN  IF resolved.status = "TypeError" \/ ~IsShape(resolved.shape)
        THEN [status |-> "TypeError", doc |-> <<>>]
        ELSE buildSVG(qrData, qrData.size, resolved.shape, opts)

\* a promise whose value is computed again from the registry when it settles
settledDocumentLate(pending, lib, shieldPaths, defaults, presets) ==
    generateShapeQR(lib, shieldPaths, defaults, presets, pending.data, pending.options)

\* The value a generateShapeQR promise settles with.  The async function has
\* no await: its body runs to the return statement within the call, so the
\* promise is resolved with the string built then, whatever the registry
\* (lib) holds when the caller's continuation runs.
settledDocument(pending, lib, shieldPaths, defaults, presets) == pending.result

----------------------------------------------------------------------------
(* The document as a string, and its encodings.  A string is the sequence   *)
(* of its code points (the strings of the model are well formed: no lone    *)
(* surrogate).  The text keeps, of every element, its tag and its paint;    *)
(* the coordinates are left out.                                            *)

\* the concatenation of a sequence of strings, by halves
RECURSIVE ConcatRange(_, _, _)
ConcatRange(seqs, lo, hi) ==
    IF lo > hi THEN <<>>
    ELSE IF lo = hi THEN seqs[lo]
    ELSE ConcatRange(seqs, lo, (lo + hi) \div 2) \o ConcatRange(seqs, (lo + hi) \div 2 + 1, hi)

Concat(seqs) == ConcatRange(seqs, 1, Len(seqs))

\* svg.join('\n'), each pushed `<tag ... fill="paint">` reduced to `<tag paint>`.
\* CodePoints lists the colour strings the callers of the model pass; "wide"
\* stands for the string of U+00E9, U+20AC and U+1F4A0.
svgText(doc) ==
    LET TagChars(tag) ==
            CASE tag = "svg"            -> << 115, 118, 103 >>
              [] tag = "defs"           -> << 100, 101, 102, 115 >>
              [] tag = "/defs"          -> << 47, 100, 101, 102, 115 >>
              [] tag = "clipPath"       -> << 99, 108, 105, 112, 80, 97, 116, 104 >>
              [] tag = "filter"         -> << 102, 105, 108, 116, 101, 114 >>
              [] tag = "linearGradient" ->
                     << 108, 105, 110, 101, 97, 114, 71, 114, 97, 100, 105, 101, 110, 116 >>
              [] tag = "radialGradient" ->
                     << 114, 97, 100, 105, 97, 108, 71, 114, 97, 100, 105, 101, 110, 116 >>
              [] tag \in {"rect", "roundedRect"} -> << 114, 101, 99, 116 >>
              [] tag = "circle"         -> << 99, 105, 114, 99, 108, 101 >>
              [] tag = "polygon"        -> << 112, 111, 108, 121, 103, 111, 110 >>
              [] tag = "path"           -> << 112, 97, 116, 104 >>
              [] tag = "g"              -> << 103 >>
              [] tag = "/g"             -> << 47, 103 >>
              [] tag = "/svg"           -> << 47, 115, 118, 103 >>
        CodePoints(str) ==
            CASE str = "#111111" -> << 35, 49, 49, 49, 49, 49, 49 >>
              [] str = "#eeeeee" -> << 35, 101, 101, 101, 101, 101, 101 >>
              [] str = "#222222" -> << 35, 50, 50, 50, 50, 50, 50 >>
              [] str = "#333333" -> << 35, 51, 51, 51, 51, 51, 51 >>
              [] str = "#444444" -> << 35, 52, 52, 52, 52, 52, 52 >>
              [] str = "wide"    -> << 233, 8364, 128160 >>
        elementText(e) ==
            << 60 >> \o TagChars(e.tag)
            \o (IF "fill" \in DOMAIN e THEN << 32 >> \o CodePoints(e.fill)
                ELSE IF "stroke" \in DOMAIN e THEN << 32 >> \o CodePoints(e.stroke)
                ELSE <<>>)
            \o << 62 >>
    IN  Concat([i \in 1..Len(doc) |->
                   (IF i > 1 THEN << 10 >> ELSE <<>>) \o elementText(doc[i])])

\* the UTF-8 bytes of one code point
utf8Bytes(cp) ==
    IF cp < 128 THEN << cp >>
    ELSE IF cp < 2048 THEN << 192 + (cp \div 64), 128 + (cp % 64) >>
    ELSE IF cp < 65536
    THEN << 224 + (cp \div 4096), 128 + ((cp \div 64) % 64), 128 + (cp % 64) >>
    ELSE << 240 + (cp \div 262144), 128 + ((cp \div 4096) % 64),
            128 + ((cp \div 64) % 64), 128 + (cp % 64) >>

\* an encoder that keeps the low byte of every code point
latin1Encode(text) == [i \in 1..Len(text) |-> text[i] % 256]

\* Buffer.from(svg, 'utf-8'), new TextEncoder().encode(svg)
utf8Encode(text) == Concat([i \in 1..Len(text) |-> utf8Bytes(text[i])])

\* buf.toString('base64'), btoa(binaryString): four characters of
\* A-Z a-z 0-9 + / for every three bytes, '=' for the bytes the last group lacks
base64Encode(bytes) ==
    LET n == Len(bytes)
        at(k) == IF k <= n THEN bytes[k] ELSE 0
        alphabet(v) == IF v < 26 THEN 65 + v ELSE IF v < 52 THEN 71 + v
                       ELSE IF v < 62 THEN v - 4 ELSE IF v = 62 THEN 43 ELSE 47
    IN  [j \in 1..(4 * CeilDiv(n, 3)) |->
            LET g == (j - 1) \div 4
                k == (j - 1) % 4
                triple == (at(3 * g + 1) * 65536) + (at(3 * g + 2) * 256) + at(3 * g + 3)
                sextet == CASE k = 0 -> triple \div 262144
                            [] k = 1 -> (triple \div 4096) % 64
                            [] k = 2 -> (triple \div 64) % 64
                            [] k = 3 -> triple % 64
            IN  IF (k = 2 /\ 3 * g + 2 > n) \/ (k = 3 /\ 3 * g + 3 > n) THEN 61
                ELSE alphabet(sextet)]

\* encodeURIComponent(svg): A-Z a-z 0-9 - _ . ! ~ * ' ( ) stay, every other
\* character becomes %XX for each of its UTF-8 bytes
encodeURIComponent(text) ==
    LET Unreserved(cp) ==
            \/ cp \in 65..90 \/ cp \in 97..122 \/ cp \in 48..57
            \/ cp \in {45, 95, 46, 33, 126, 42, 39, 40, 41}
        HexDigit(n) == IF n < 10 THEN 48 + n ELSE 55 + n
    IN  Concat([i \in 1..Len(text) |->
            IF Unreserved(text[i]) THEN << text[i] >>
            ELSE LET bytes == utf8Bytes(text[i]) IN
                 Concat([j \in 1..Len(bytes) |->
                     << 37, HexDigit(bytes[j] \div 16), HexDigit(bytes[j] % 16) >>])])

\* unescape(str): every % followed by two hexadecimal digits becomes the
\* character of that code, every other character stays (a % is no hexadecimal
\* digit, so no escape begins inside another)
unescape(chars) ==
    LET n == Len(chars)
        HexValue(c) == IF c \in 48..57 THEN c - 48 ELSE IF c \in 65..70 THEN c - 55
                       ELSE IF c \in 97..102 THEN c - 87 ELSE -1
        escapeAt(i) == /\ i >= 1 /\ i + 2 <= n /\ chars[i] = 37
                       /\ HexValue(chars[i + 1]) >= 0 /\ HexValue(chars[i + 2]) >= 0
        starts == SelectSeq([i \in 1..n |-> i],
                            LAMBDA i : ~escapeAt(i - 1) /\ ~escapeAt(i - 2))
    IN  [k \in 1..Len(starts) |->
            IF escapeAt(starts[k])
            THEN (16 * HexValue(chars[starts[k] + 1])) + HexValue(chars[starts[k] + 2])
            ELSE chars[starts[k]]]

DataPrefix ==      \* 'data:image/svg+xml;base64,'
    << 100, 97, 116, 97, 58, 105, 109, 97, 103, 101, 47, 115, 118, 103, 43, 120, 109, 108,
       59, 98, 97, 115, 101, 54, 52, 44 >>

\* The globals a host offers: Node.js has Buffer, a browser has btoa and no
\* Buffer, a bare host has neither; all three have TextEncoder.
Hosts == {"node", "browser", "bare"}

generateShapeQRBuffer(lib, shieldPaths, defaults, presets, data, options, host) ==
    LET r == generateShapeQR(lib, shieldPaths, defaults, presets, data, options) IN
    IF r.status # "ok" THEN [status |-> r.status, bytes |-> <<>>]
    ELSE [status |-> "ok", bytes |-> utf8Encode(svgText(r.doc))]

generateShapeQRDataURI(lib, shieldPaths, defaults, presets, data, options, host) ==
    LET r == generateShapeQR(lib, shieldPaths, defaults, presets, data, options) IN
    IF r.status # "ok" THEN [status |-> r.status, uri |-> <<>>]
    ELSE IF host = "node"
    THEN [status |-> "ok", uri |-> DataPrefix \o base64Encode(utf8Encode(svgText(r.doc)))]
    ELSE IF host = "browser"
    THEN [status |-> "ok",
          uri |-> DataPrefix \o base64Encode(unescape(encodeURIComponent(svgText(r.doc))))]
    ELSE [status |-> "Error", uri |-> <<>>]

----------------------------------------------------------------------------
(* Container geometry (the sticker composition step).  The function is      *)
(* declared in src/src/index.d.ts and called by the playground; its body is *)
(* written here from the specification, section 4.7.  Lengths are integers: *)
(* the canvas is the aspect pair times one hundred, the inner container box *)
(* is kept in hundredths of a canvas unit (innerSizeRatio is in hundredths).*)

\* the same engine with the canvas sized to the inner container's shape
computeStickerGeometryInnerCanvas(cfg) ==
    LET aspects == [circle |-> <<1, 1>>, square |-> <<1, 1>>, portrait |-> <<3, 4>>,
                    landscape |-> <<4, 3>>,
                    shield |-> [classic |-> <<300, 340>>, badge |-> <<300, 330>>,
                                modern |-> <<300, 310>>,
                                emblem |-> <<300, 350>>][cfg.innerShieldVariant]]
        inner == aspects[cfg.innerShape]
    IN  [canvasW |-> 100 * inner[1], canvasH |-> 100 * inner[2],
         centerX |-> 50 * inner[1], centerY |-> 50 * inner[2],
         aspect |-> inner,
         innerBoxW |-> 100 * inner[1] * cfg.innerSizeRatio,
         innerBoxH |-> 100 * inner[2] * cfg.innerSizeRatio,
         innerAspect |-> inner]

computeStickerGeometry(cfg) ==
    LET STICKER_SHAPES == <<
            KV("circle", [aspect |-> <<1, 1>>]),
            KV("square", [aspect |-> <<1, 1>>]),
            KV("portrait", [aspect |-> <<3, 4>>]),
            KV("landscape", [aspect |-> <<4, 3>>]),
            KV("shield", [aspect |-> <<>>]) >>          \* aspect: null
        STICKER_SHIELD_VARIANTS == <<
            KV("classic", [origW |-> 300, origH |-> 340]),
            KV("badge", [origW |-> 300, origH |-> 330]),
            KV("modern", [origW |-> 300, origH |-> 310]),
            KV("emblem", [origW |-> 300, origH |-> 350]) >>
        aspectOf(shape, variant) ==
            LET info == Get(STICKER_SHAPES, shape)
                v == Get(STICKER_SHIELD_VARIANTS, variant)
            IN  IF info.aspect # <<>> THEN info.aspect ELSE <<v.origW, v.origH>>
        outer == aspectOf(cfg.outerShape, cfg.outerShieldVariant)
        inner == aspectOf(cfg.innerShape, cfg.innerShieldVariant)
        canvasW == 100 * outer[1]
        canvasH == 100 * outer[2]
    IN  [canvasW |-> canvasW, canvasH |-> canvasH,
         centerX |-> 50 * outer[1], centerY |-> 50 * outer[2],
         aspect |-> outer,
         innerBoxW |-> canvasW * cfg.innerSizeRatio,
         innerBoxH |-> canvasH * cfg.innerSizeRatio,
         innerAspect |-> inner]

----------------------------------------------------------------------------
(* The calls the model makes *)

\* test/basic.js, "Custom Shapes"
TestCategory ==
    Category("Test", << KV("basic", Shape("test/basic", 100, 100, 5, 5, 90, FALSE)) >>)

\* a definition that adds the variation `custom` and redefines `classic`
CustomShield ==
    Category("My Shield", <<
        KV("custom", Shape("shield/custom", 300, 340, 50, 40, 200, FALSE)),
        KV("classic", Shape("shield/classic2", 300, 340, 48, 38, 204, FALSE)) >>)

\* a Partial<ShapeCategory> without variations
LabelOnly == CategoryNoVariations("Label only")

RegisterCalls ==
    { [key |-> "test", def |-> TestCategory], [key |-> "test", def |-> LabelOnly],
      [key |-> "shield", def |-> CustomShield], [key |-> "shield", def |-> TestCategory] }

ResolveDesigns ==
    {NilDesign} \cup
    {Design(c, v, s) : c \in {Null, "shield", "test", "bogus", "constructor"},
                       v \in {Null, "custom", "bogus"},
                       s \in {Null, "badge", "custom", "test", "constructor"}}

CustomColors ==
    [label |-> Null, background |-> "#111111", foreground |-> "#eeeeee",
     outline |-> "#222222", finderOuter |-> "#333333", finderInner |-> "#444444",
     outlineWidth |-> "10"]

ColorDesigns ==
    {NilColorDesign} \cup
    {ColorDesign(c, p) : c \in {Undefined, CustomColors},
                         p \in {Null, "fire", "ocean", "bogus", "constructor"}}

\* the caller's colours object of the same six values
CustomColorsOption ==
    Obj("options.colors", <<
        KV("background", Str("#111111")), KV("foreground", Str("#eeeeee")),
        KV("outline", Str("#222222")), KV("finderOuter", Str("#333333")),
        KV("finderInner", Str("#444444")), KV("outlineWidth", Str("10")) >>)

Data(version, pattern) == [version |-> version, pattern |-> pattern]

OptDefault     == <<>>
OptPresetFire  == << KV("preset", Str("fire")) >>
OptPresetAndColors ==
    << KV("preset", Str("fire")), KV("colors", CustomColorsOption),
       KV("decorativeFill", Bool(FALSE)) >>
OptColorsOnly  == << KV("colors", CustomColorsOption), KV("decorativeFill", Bool(FALSE)) >>
\* no colours object: no preset, a named preset, a name that is no preset
OptNoColors      == << KV("decorativeFill", Bool(FALSE)) >>
OptPresetOnly    == << KV("preset", Str("royal")), KV("decorativeFill", Bool(FALSE)) >>
OptPresetUnknown == << KV("preset", Str("bogus")), KV("decorativeFill", Bool(FALSE)) >>
OptTransparentSolid ==
    << KV("finderPattern", Str("solid")),
       KV("colors", Obj("options.colors", << KV("background", Str("transparent")) >>)),
       KV("decorativeFill", Bool(FALSE)) >>
OptSolid       == << KV("finderPattern", Str("solid")), KV("shapeCategory", Str("none")) >>
OptEmptyGradient ==
    << KV("gradient", Obj("options.gradient", <<
           KV("type", Str("linear")), KV("colors", Arr(<<>>)) >>)),
       KV("decorativeFill", Bool(FALSE)) >>
OptGradient ==
    << KV("gradient", Obj("options.gradient", <<
           KV("type", Str("linear")),
           KV("colors", Arr(<< Str("#ff0000"), Str("#0000ff") >>)),
           KV("angle", Num(45)),
           KV("stops", Arr(<< Num(0), Num(100) >>)) >>)),
       KV("decorativeFill", Bool(FALSE)) >>
OptBarH        == << KV("moduleStyle", Str("barH")), KV("decorativeFill", Bool(FALSE)) >>
OptBarV        == << KV("moduleStyle", Str("barV")), KV("centerClear", Bool(TRUE)),
                     KV("shapeCategory", Str("test")) >>
OptBarHClear   == << KV("moduleStyle", Str("barH")), KV("centerClear", Bool(TRUE)),
                     KV("centerSize", Num(30)), KV("decorativeFill", Bool(FALSE)) >>
OptPond ==
    << KV("shapeCategory", Str("circle")), KV("shapeVariation", Str("squircle")),
       KV("preset", Str("ocean")), KV("moduleStyle", Str("pond")),
       KV("glowEffect", Bool(TRUE)), KV("decorativeFill", Bool(FALSE)) >>
\* pond at full scale, and at a small scale with the decorative layer on
OptPondFull ==
    << KV("moduleStyle", Str("pond")), KV("moduleScale", Num(100)),
       KV("decorativeFill", Bool(FALSE)) >>
OptPondDeco ==
    << KV("shapeCategory", Str("test")), KV("moduleStyle", Str("pond")),
       KV("moduleScale", Num(60)), KV("centerClear", Bool(TRUE)),
       KV("decorativeSafeMargin", Num(0)), KV("decorativeDensity", Num(100)) >>
\* the decorative layer in bars, dense and with a wide margin
OptBarHDeco ==
    << KV("moduleStyle", Str("barH")), KV("decorativeSafeMargin", Num(20)),
       KV("decorativeDensity", Num(100)), KV("decorativeScale", Num(100)) >>
OptBare        == << KV("shapeCategory", Str("none")) >>
\* the bare shape with every frame option switched on
OptBareFramed ==
    << KV("shapeCategory", Str("none")), KV("glowEffect", Bool(TRUE)),
       KV("innerBorder", Bool(TRUE)), KV("decorativeFill", Bool(TRUE)),
       KV("colors", Obj("options.colors", << KV("background", Str("transparent")) >>)) >>
OptInherited   == << KV("shapeCategory", Str("constructor")) >>
\* the legacy selector alone: a shield variation, a category
OptLegacyBadge  == << KV("shape", Str("badge")), KV("decorativeFill", Bool(FALSE)) >>
OptLegacyCircle == << KV("shape", Str("circle")), KV("decorativeFill", Bool(FALSE)) >>
\* the default per-cell style with a wide centre clearing
OptClear ==
    << KV("centerClear", Bool(TRUE)), KV("centerSize", Num(35)),
       KV("decorativeFill", Bool(FALSE)) >>


VariationQueries == {"shield", "test", "bogus", "constructor"}

Versions == 1..MaxVersion
Patterns == {"full", "checker", "stripes"}

\* the generateShapeQR calls of the registry specification
RegistryInputs ==
    { [data |-> Data(1, "checker"), options |-> o] :
        o \in {OptPresetAndColors, OptColorsOnly, OptNoColors, OptPresetOnly, OptPresetUnknown,
               OptLegacyBadge, OptLegacyCircle} }

\* the generateShapeQR calls of the rendering specification
RenderInputs ==
    { [data |-> Data(v, p), options |-> o] :
        v \in Versions, p \in Patterns,
        o \in {OptDefault, OptTransparentSolid, OptSolid, OptEmptyGradient, OptGradient,
               OptBarH, OptBarV, OptBarHClear, OptPond, OptBare, OptInherited,
               OptPondFull, OptPondDeco, OptBarHDeco, OptBareFramed, OptClear} }

\* the registrations of the interleaving specification
AsyncRegisterCalls ==
    { [key |-> "test", def |-> TestCategory], [key |-> "shield", def |-> CustomShield] }

\* The calls of the interleaving specification: shapes that a registration
\* of `test` or `shield` adds or redefines
AsyncInputs ==
    { [data |-> Data(1, "checker"),
       options |-> << KV("shapeCategory", Str(sel[1])), KV("shapeVariation", Str(sel[2])),
                      KV("decorativeFill", Bool(FALSE)) >>] :
        sel \in { << "test", "basic" >>, << "shield", "custom" >>, << "shield", "classic" >> } }

\* The calls of the density specification: one grid, three shapes, the
\* decorative layer at five densities (in hundredths) with everything else equal
DensityInputs ==
    { [data |-> Data(1, "checker"),
       options |-> << KV("shapeCategory", Str(sel[1])), KV("shapeVariation", Str(sel[2])),
                      KV("decorativeFill", Bool(TRUE)),
                      KV("decorativeDensity", Num(d)) >>] :
        sel \in { << "shield", "classic" >>, << "circle", "perfect" >>,
                  << "rectangle", "landscape" >> },
        d \in {0, 10, 35, 60, 100} }

\* The calls of the gradient specification: a colour list of one to five
\* colours and no stops, linear at an angle (or at the default one) or radial
GradientInputs ==
    LET palette == << Str("#ff0000"), Str("#00ff00"), Str("#0000ff"),
                      Str("#ffff00"), Str("#ff00ff") >>
        gradientOf(type, k, angle) ==
            Obj("options.gradient",
                << KV("type", Str(type)), KV("colors", Arr(SubSeq(palette, 1, k))) >>
                \o (IF angle < 0 THEN <<>> ELSE << KV("angle", Num(angle)) >>))   \* -1: no angle
    IN  { [data |-> Data(1, p),
           options |-> << KV("gradient", gradientOf(type, k, angle)),
                          KV("decorativeFill", Bool(FALSE)) >>] :
            p \in Patterns, type \in {"linear", "radial"}, k \in 1..5,
            angle \in {-1, 0, 45, 90, 180} }

\* The calls of the containment specification: every category and variation
\* of the built-in library, with five sets of module style, finder pattern and
\* styles, module scale and finder scale
ShapeInputs ==
    LET BuiltinSelectors ==
            UNION { { [category |-> BUILTIN_SHAPE_LIBRARY[i].k,
                       variation |-> BUILTIN_SHAPE_LIBRARY[i].v.variations[j].k] :
                      j \in 1..Len(BUILTIN_SHAPE_LIBRARY[i].v.variations) } :
                    i \in 1..Len(BUILTIN_SHAPE_LIBRARY) }
        GridStyles ==
            { << KV("moduleStyle", Str("circle")), KV("finderPattern", Str("pattern")) >>,
              << KV("moduleStyle", Str("barH")), KV("finderPattern", Str("solid")),
                 KV("moduleScale", Num(100)), KV("finderScale", Num(100)) >>,
              << KV("moduleStyle", Str("barV")), KV("finderPattern", Str("solid")),
                 KV("finderOuterStyle", Str("circle")), KV("finderInnerStyle", Str("diamond")),
                 KV("moduleScale", Num(50)), KV("finderScale", Num(70)) >>,
              << KV("moduleStyle", Str("pond")), KV("finderPattern", Str("pattern")),
                 KV("finderOuterStyle", Str("square")),
                 KV("moduleScale", Num(60)), KV("finderScale", Num(90)) >>,
              << KV("moduleStyle", Str("diamond")), KV("finderPattern", Str("pattern")),
                 KV("moduleScale", Num(100)), KV("finderScale", Num(100)) >> }
    IN  { [data |-> Data(v, "full"),
           options |-> << KV("shapeCategory", Str(sel.category)),
                          KV("shapeVariation", Str(sel.variation)),
                          KV("decorativeFill", Bool(FALSE)) >> \o style] :
            v \in Versions, sel \in BuiltinSelectors, style \in GridStyles }

\* The calls of the output-form specification: documents of a few elements
\* (solid finders, one pond path, six colours), the foreground plain or of
\* characters of two, three and four bytes; and a call that throws
FormInputs ==
    LET formOptions(foreground) ==
            << KV("moduleStyle", Str("pond")), KV("finderPattern", Str("solid")),
               KV("colors", Obj("options.colors", <<
                   KV("background", Str("#111111")), KV("foreground", Str(foreground)),
                   KV("outline", Str("#222222")), KV("finderOuter", Str("#333333")),
                   KV("finderInner", Str("#444444")), KV("outlineWidth", Str("10")) >>)),
               KV("decorativeFill", Bool(FALSE)) >>
    IN  { [data |-> Data(1, p), options |-> formOptions(fg)] :
            p \in {"checker", "full"}, fg \in {"#eeeeee", "wide"} }
        \cup { [data |-> Data(1, "checker"), options |-> OptInherited] }

\* the generateShapeQR calls of the repetition specification
RepeatInputs ==
    { [data |-> Data(v, p), options |-> o] :
        v \in Versions, p \in {"checker", "full"},
        o \in {OptDefault, OptPresetFire, OptBarV} }

\* StickerConfig values: the fields the canvas and the inner box are read from
StickerConfigs ==
    [outerShape : {"circle", "square", "portrait", "landscape", "shield"},
     outerShieldVariant : {"classic", "badge", "modern", "emblem"},
     innerShape : {"circle", "square", "portrait", "landscape", "shield"},
     innerShieldVariant : {"classic", "badge", "modern", "emblem"},
     innerSizeRatio : {58, 72}]

----------------------------------------------------------------------------
(* The state machine *)

Idle   == [op |-> "idle"]
NoMemo == [op |-> "none"]

Init ==
    /\ SHAPE_LIBRARY = BUILTIN_SHAPE_LIBRARY
    /\ SHIELD_PATHS = Get(BUILTIN_SHAPE_LIBRARY, "shield").variations
    /\ DEFAULT_OPTIONS = DEFAULT_OPTIONS_VALUE
    /\ COLOR_PRESETS = BUILTIN_COLOR_PRESETS
    /\ call = Idle
    /\ memo = NoMemo
    /\ everPresent = KeySet(BUILTIN_SHAPE_LIBRARY)
    /\ nRegistered = 0

RegisterShape(calls) ==
    /\ call = Idle
    /\ nRegistered < MaxRegistrations
    /\ \E c \in calls, merge \in BOOLEAN :
          /\ SHAPE_LIBRARY' = registerShape(SHAPE_LIBRARY, c.key, c.def, merge)
          /\ call' = [op |-> "registerShape", key |-> c.key, def |-> c.def,
                      merge |-> merge, lib |-> SHAPE_LIBRARY]
    /\ everPresent' = everPresent \cup KeySet(SHAPE_LIBRARY')
    /\ nRegistered' = nRegistered + 1
    /\ UNCHANGED <<SHIELD_PATHS, DEFAULT_OPTIONS, COLOR_PRESETS, memo>>

ResolveShape ==
    /\ call = Idle
    /\ \E design \in ResolveDesigns :
          call' = [op |-> "resolveShape", design |-> design,
                   result |-> resolveShape(SHAPE_LIBRARY, SHIELD_PATHS, design)]
    /\ UNCHANGED <<SHAPE_LIBRARY, SHIELD_PATHS, DEFAULT_OPTIONS, COLOR_PRESETS,
                   memo, everPresent, nRegistered>>

ResolveColors ==
    /\ call = Idle
    /\ \E design \in ColorDesigns :
          call' = [op |-> "resolveColors", design |-> design,
                   result |-> resolveColors(COLOR_PRESETS, design)]
    /\ UNCHANGED <<SHAPE_LIBRARY, SHIELD_PATHS, DEFAULT_OPTIONS, COLOR_PRESETS,
                   memo, everPresent, nRegistered>>

GetShapeLibrary ==
    /\ call = Idle
    /\ call' = [op |-> "getShapeLibrary", result |-> getShapeLibrary(SHAPE_LIBRARY)]
    /\ UNCHANGED <<SHAPE_LIBRARY, SHIELD_PATHS, DEFAULT_OPTIONS, COLOR_PRESETS,
                   memo, everPresent, nRegistered>>

GetShapeCategories ==
    /\ call = Idle
    /\ call' = [op |-> "getShapeCategories", result |-> getShapeCategories(SHAPE_LIBRARY)]
    /\ UNCHANGED <<SHAPE_LIBRARY, SHIELD_PATHS, DEFAULT_OPTIONS, COLOR_PRESETS,
                   memo, everPresent, nRegistered>>

GetShapeVariations ==
    /\ call = Idle
    /\ \E category \in VariationQueries :
          call' = [op |-> "getShapeVariations", category |-> category,
                   result |-> getShapeVariations(SHAPE_LIBRARY, category)]
    /\ UNCHANGED <<SHAPE_LIBRARY, SHIELD_PATHS, DEFAULT_OPTIONS, COLOR_PRESETS,
                   memo, everPresent, nRegistered>>

GetShieldShapes ==
    /\ call = Idle
    /\ call' = [op |-> "getShieldShapes", result |-> getShieldShapes(SHIELD_PATHS)]
    /\ UNCHANGED <<SHAPE_LIBRARY, SHIELD_PATHS, DEFAULT_OPTIONS, COLOR_PRESETS,
                   memo, everPresent, nRegistered>>

GenerateShapeQR(inputs) ==
    /\ call = Idle
    /\ \E in \in inputs :
          /\ call' = [op |-> "generateShapeQR", data |-> in.data, options |-> in.options,
                      lib |-> SHAPE_LIBRARY,
                      result |-> generateShapeQR(SHAPE_LIBRARY, SHIELD_PATHS, DEFAULT_OPTIONS,
                                                 COLOR_PRESETS, in.data, in.options)]
          /\ DEFAULT_OPTIONS' =
                ApplyWrites(DEFAULT_OPTIONS,
                            heapWrites(mergeOptions(DEFAULT_OPTIONS, in.options), COLOR_PRESETS))
    /\ UNCHANGED <<SHAPE_LIBRARY, SHIELD_PATHS, COLOR_PRESETS, memo, everPresent, nRegistered>>

GenerateShapeQRBuffer(inputs) ==
    /\ call = Idle
    /\ \E in \in inputs, host \in Hosts :
          /\ call' = [op |-> "generateShapeQRBuffer", data |-> in.data,
                      options |-> in.options, lib |-> SHAPE_LIBRARY, host |-> host,
                      result |-> generateShapeQRBuffer(SHAPE_LIBRARY, SHIELD_PATHS,
                                    DEFAULT_OPTIONS, COLOR_PRESETS, in.data, in.options, host)]
          /\ DEFAULT_OPTIONS' =
                ApplyWrites(DEFAULT_OPTIONS,
                            heapWrites(mergeOptions(DEFAULT_OPTIONS, in.options), COLOR_PRESETS))
    /\ UNCHANGED <<SHAPE_LIBRARY, SHIELD_PATHS, COLOR_PRESETS, memo, everPresent, nRegistered>>

GenerateShapeQRDataURI(inputs) ==
    /\ call = Idle
    /\ \E in \in inputs, host \in Hosts :
          /\ call' = [op |-> "generateShapeQRDataURI", data |-> in.data,
                      options |-> in.options, lib |-> SHAPE_LIBRARY, host |-> host,
                      result |-> generateShapeQRDataURI(SHAPE_LIBRARY, SHIELD_PATHS,
                                    DEFAULT_OPTIONS, COLOR_PRESETS, in.data, in.options, host)]
          /\ DEFAULT_OPTIONS' =
                ApplyWrites(DEFAULT_OPTIONS,
                            heapWrites(mergeOptions(DEFAULT_OPTIONS, in.options), COLOR_PRESETS))
    /\ UNCHANGED <<SHAPE_LIBRARY, SHIELD_PATHS, COLOR_PRESETS, memo, everPresent, nRegistered>>

ComputeStickerGeometry ==
    /\ call = Idle
    /\ \E cfg \in StickerConfigs :
          call' = [op |-> "computeStickerGeometry", cfg |-> cfg,
                   result |-> computeStickerGeometry(cfg)]
    /\ UNCHANGED <<SHAPE_LIBRARY, SHIELD_PATHS, DEFAULT_OPTIONS, COLOR_PRESETS,
                   memo, everPresent, nRegistered>>

\* registerShape runs after a generateShapeQR call has returned its promise
\* and before the caller's continuation has received the document
RegisterShapeWhilePending(calls) ==
    /\ call.op = "generateShapeQR"
    /\ nRegistered < MaxRegistrations
    /\ \E c \in calls, merge \in BOOLEAN :
          SHAPE_LIBRARY' = registerShape(SHAPE_LIBRARY, c.key, c.def, merge)
    /\ everPresent' = everPresent \cup KeySet(SHAPE_LIBRARY')
    /\ nRegistered' = nRegistered + 1
    /\ UNCHANGED <<SHIELD_PATHS, DEFAULT_OPTIONS, COLOR_PRESETS, call, memo>>

\* the promise settles: the caller's continuation receives the document
Settle ==
    /\ call.op = "generateShapeQR"
    /\ memo' = [op |-> "generateShapeQR", data |-> call.data, options |-> call.options,
                lib |-> call.lib, settledLib |-> SHAPE_LIBRARY,
                result |-> settledDocument(call, SHAPE_LIBRARY, SHIELD_PATHS,
                                           DEFAULT_OPTIONS, COLOR_PRESETS)]
    /\ call' = Idle
    /\ UNCHANGED <<SHAPE_LIBRARY, SHIELD_PATHS, DEFAULT_OPTIONS, COLOR_PRESETS,
                   everPresent, nRegistered>>

\* the call returns to its caller
Return ==
    /\ call # Idle
    /\ call' = Idle
    /\ UNCHANGED <<SHAPE_LIBRARY, SHIELD_PATHS, DEFAULT_OPTIONS, COLOR_PRESETS,
                   memo, everPresent, nRegistered>>

\* the caller keeps the document it was given
Keep ==
    /\ call # Idle
    /\ call.op \in {"generateShapeQR", "generateShapeQRBuffer", "generateShapeQRDataURI"}
    /\ memo' = call
    /\ call' = Idle
    /\ UNCHANGED <<SHAPE_LIBRARY, SHIELD_PATHS, DEFAULT_OPTIONS, COLOR_PRESETS,
                   everPresent, nRegistered>>

Next ==
    \/ RegisterShape(RegisterCalls)
    \/ ResolveShape
    \/ ResolveColors
    \/ GetShapeLibrary
    \/ GetShapeCategories
    \/ GetShapeVariations
    \/ GetShieldShapes
    \/ GenerateShapeQR(RegistryInputs)
    \/ Return

Spec == Init /\ [][Next]_vars

NextRender ==
    \/ RegisterShape({[key |-> "test", def |-> TestCategory]})
    \/ GenerateShapeQR(RenderInputs)
    \/ Return

SpecRender == Init /\ [][NextRender]_vars

NextRepeat ==
    \/ RegisterShape({[key |-> "test", def |-> TestCategory]})
    \/ GenerateShapeQR(RepeatInputs)
    \/ Return
    \/ Keep

SpecRepeat == Init /\ [][NextRepeat]_vars

NextForms ==
    \/ GenerateShapeQR(FormInputs)
    \/ GenerateShapeQRBuffer(FormInputs)
    \/ GenerateShapeQRDataURI(FormInputs)
    \/ Return
    \/ Keep

SpecForms == Init /\ [][NextForms]_vars

NextShapes ==
    \/ GenerateShapeQR(ShapeInputs)
    \/ Return

SpecShapes == Init /\ [][NextShapes]_vars

NextGradient ==
    \/ GenerateShapeQR(GradientInputs)
    \/ Return

SpecGradient == Init /\ [][NextGradient]_vars

NextDensity ==
    \/ GenerateShapeQR(DensityInputs)
    \/ Return
    \/ Keep

SpecDensity == Init /\ [][NextDensity]_vars

NextAsync ==
    \/ RegisterShape(AsyncRegisterCalls)
    \/ RegisterShapeWhilePending(AsyncRegisterCalls)
    \/ GenerateShapeQR(AsyncInputs)
    \/ Settle
    \/ Return

SpecAsync == Init /\ [][NextAsync]_vars

NextSticker ==
    \/ ComputeStickerGeometry
    \/ Return

SpecSticker == Init /\ [][NextSticker]_vars

----------------------------------------------------------------------------
(* Reading a call and its document *)

\* the options and colours the latest generateShapeQR call rendered with
CallOpts == applyPreset(mergeOptions(DEFAULT_OPTIONS, call.options), COLOR_PRESETS)
CallColors == ObjOrEmpty(Opt(CallOpts, "colors"))
CallCount == ModuleCount(call.data.version)

Generated == call.op = "generateShapeQR" /\ call.result.status = "ok"

Layer(e) == IF "layer" \in DOMAIN e THEN e.layer ELSE Null

FinderKind(e) ==
    IF Layer(e) = "finder" THEN (IF e.cells = 7 THEN "outer" ELSE IF e.cells = 5 THEN "space" ELSE "inner")
    ELSE IF Layer(e) = "module" /\ "dir" \notin DOMAIN e /\ e.tag # "path"
    THEN classifyFinderModule(e.row, e.col, getFinderPatternPositions(CallCount))
    ELSE Null

\* the attribute `attr` of the elements of the document of the given kind
\* ("background", "outline", "data", or a finder kind)
KindOf(e) ==
    IF Layer(e) \in {"background", "quietZone"} THEN "background"
    ELSE IF Layer(e) = "outline" THEN "outline"
    ELSE IF FinderKind(e) # Null THEN FinderKind(e)
    ELSE IF Layer(e) = "module" THEN "data"
    ELSE Null

Uses(doc, kind, attr) == { doc[i][attr] : i \in { j \in 1..Len(doc) : KindOf(doc[j]) = kind } }

----------------------------------------------------------------------------
(* Claims *)

\* C1: with the background colour 'transparent' and finderPattern 'solid', each
\* of the three finders has its outer and space shapes emitted as one ring path
\* with the even-odd fill rule, and no finder shape is filled with the literal
\* background colour.
C1_TransparentSolidFindersAreRings ==
    (/\ Generated
     /\ Opt(CallOpts, "finderPattern") = Str("solid")
     /\ Opt(CallColors, "background") = Str("transparent"))
    => LET doc == call.result.doc
           positions == getFinderPatternPositions(CallCount)
           IsRingAt(e, pos) ==
               /\ Layer(e) = "finder" /\ e.tag = "path"
               /\ "fillRule" \in DOMAIN e /\ e.fillRule = "evenodd"
               /\ e.row = pos.row /\ e.col = pos.col
       IN  /\ \A i \in 1..Len(positions) :
                Cardinality({ j \in 1..Len(doc) : IsRingAt(doc[j], positions[i]) }) = 1
           /\ \A j \in 1..Len(doc) :
                Layer(doc[j]) = "finder" => doc[j].fill # "transparent"

\* C2: when a config carries custom colours together with a preset name, the
\* custom colours override the preset: resolveColors returns the custom colours
\* and generateShapeQR renders background, foreground, outline, finder-outer,
\* finder-inner and outline width with the custom values.
C2_CustomColoursOverridePreset ==
    /\ (/\ call.op = "resolveColors"
        /\ ~call.design.nil
        /\ call.design.customColors # Undefined
        /\ call.design.preset # Null)
       => call.result = call.design.customColors
    /\ (/\ Generated
        /\ IsTruthy(Opt(call.options, "preset"))
        /\ Opt(call.options, "colors").t = "object")
       => LET doc == call.result.doc
              custom(f) == Show(Opt(Opt(call.options, "colors").v, f))
          IN  /\ Uses(doc, "background", "fill") = {custom("background")}
              /\ Uses(doc, "data", "fill") = {custom("foreground")}
              /\ Uses(doc, "outline", "stroke") = {custom("outline")}
              /\ Uses(doc, "outline", "strokeWidth") = {custom("outlineWidth")}
              /\ Uses(doc, "outer", "fill") = {custom("finderOuter")}
              /\ Uses(doc, "inner", "fill") = {custom("finderInner")}

\* the variations of the registry's shield category
ShieldVariations == VariationsOf(PropGet(SHAPE_LIBRARY, "shield", Undefined))

IsShieldClassic(result) ==
    result.status = "ok" /\ result.category = "shield" /\ result.variation = "classic"

\* C3: resolveShape picks by precedence: a registered shapeCategory resolves
\* inside that category even when the legacy `shape` selector disagrees; with
\* no usable category a legacy name that is a shield variation gives
\* shield/<name> and one that is a category gives that category's first
\* variation; with neither the result is shield/classic.
C3_ResolveShapePrecedence ==
    call.op = "resolveShape" =>
        LET c == Field(call.design, "shapeCategory")
            s == Field(call.design, "shape")
            r == call.result
        IN  IF c # Null /\ Has(SHAPE_LIBRARY, c)
            THEN /\ r.status = "ok"
                 /\ r.category = c
                 /\ \E i \in 1..Len(VariationsOf(Get(SHAPE_LIBRARY, c))) :
                        r.shape = VariationsOf(Get(SHAPE_LIBRARY, c))[i].v
            ELSE IF s # Null /\ Has(ShieldVariations, s)
            THEN r = Resolved("shield", s, Get(ShieldVariations, s))
            ELSE IF s # Null /\ Has(SHAPE_LIBRARY, s)
            THEN /\ r.status = "ok"
                 /\ r.category = s
                 /\ r.variation = FirstKey(VariationsOf(Get(SHAPE_LIBRARY, s)))
                 /\ r.shape = FirstValue(VariationsOf(Get(SHAPE_LIBRARY, s)))
            ELSE IsShieldClassic(r)

\* C4: resolveShape never raises, whatever the config: an unknown variation of
\* a known category resolves to the category's first entry, and an unknown
\* category with no usable legacy selector resolves to shield/classic.
C4_ResolveShapeNeverRaises ==
    call.op = "resolveShape" =>
        LET c == Field(call.design, "shapeCategory")
            v == Field(call.design, "shapeVariation")
            s == Field(call.design, "shape")
            r == call.result
            known == c # Null /\ Has(SHAPE_LIBRARY, c)
            usableLegacy == s # Null /\ (Has(ShieldVariations, s) \/ Has(SHAPE_LIBRARY, s))
        IN  /\ r.status = "ok"
            /\ (known /\ v # Null /\ ~Has(VariationsOf(Get(SHAPE_LIBRARY, c)), v))
                  => r.shape = FirstValue(VariationsOf(Get(SHAPE_LIBRARY, c)))
            /\ (~known /\ ~usableLegacy) => IsShieldClassic(r)

C6_RegistryAdditiveOnly ==
    /\ [](everPresent \subseteq KeySet(SHAPE_LIBRARY))
    /\ [][SHAPE_LIBRARY' # SHAPE_LIBRARY => call'.op = "registerShape"]_vars

\* a generation after two registrations, one of which replaced the shield category
C6_Witness ==
    /\ nRegistered >= 2
    /\ "test" \in KeySet(SHAPE_LIBRARY)
    /\ Get(SHAPE_LIBRARY, "shield") = TestCategory
    /\ call.op = "generateShapeQR"

\* C7: a gradient whose colour list is empty is rejected: generateShapeQR fails
\* with a configuration error and returns no document for it.
C7_EmptyGradientRejected ==
    (/\ call.op = "generateShapeQR"
     /\ Opt(call.options, "gradient").t = "object"
     /\ Opt(Opt(call.options, "gradient").v, "colors") = Arr(<<>>))
    => call.result.status # "ok"

C9_FinderClassificationCoverage ==
    call.op = "generateShapeQR" =>
        LET N == CallCount
            corners == { <<0, 0>>, <<0, N - 7>>, <<N - 7, 0>> }
            kind(r, c) == classifyFinderModule(r, c, getFinderPatternPositions(N))
            InBlock(r, c) ==
                \E b \in corners : r >= b[1] /\ r <= b[1] + 6 /\ c >= b[2] /\ c <= b[2] + 6
            Count(b, k) ==
                Cardinality({ rc \in (b[1]..(b[1] + 6)) \X (b[2]..(b[2] + 6)) :
                                kind(rc[1], rc[2]) = k })
        IN  /\ N >= 21
            /\ Cardinality(corners) = 3
            /\ \A r \in 0..(N - 1), c \in 0..(N - 1) : (kind(r, c) # Null) <=> InBlock(r, c)
            /\ \A b \in corners :
                  Count(b, "outer") = 24 /\ Count(b, "space") = 16 /\ Count(b, "inner") = 9

\* a grid of side 25 drawn with per-cell finders: 33 cells of every block are drawn
C9_Witness ==
    /\ Generated /\ CallCount = 25
    /\ Opt(CallOpts, "finderPattern") = Str("pattern")
    /\ Cardinality({ i \in 1..Len(call.result.doc) :
                        FinderKind(call.result.doc[i]) \in {"outer", "inner"} }) = 99

\* C10: bar merging: the rectangles of a row (barH) or column (barV) are its
\* maximal runs of eligible cells (dark, in no finder block, not cleared): a
\* run holds no ineligible cell, cannot be extended at either end, and every
\* eligible cell lies in exactly one run; a line whose N cells are all
\* eligible is one run of length N.
C10_BarRunsAreMaximal ==
    (Generated /\ Opt(CallOpts, "moduleStyle") \in {Str("barH"), Str("barV")}) =>
        LET doc == call.result.doc
            N   == CallCount
            dir == Opt(CallOpts, "moduleStyle").v
            E(line, i) ==
                IF dir = "barH" THEN Eligible(QRCreate(call.data), N, CallOpts, line, i)
                ELSE Eligible(QRCreate(call.data), N, CallOpts, i, line)
            bars == { j \in 1..Len(doc) : Layer(doc[j]) = "module" /\ "dir" \in DOMAIN doc[j] }
            lineOf(e)  == IF dir = "barH" THEN e.row ELSE e.col
            startOf(e) == IF dir = "barH" THEN e.col ELSE e.row
            onLine(l)  == { j \in bars : lineOf(doc[j]) = l }
        IN  /\ \A j \in bars :
                  LET e == doc[j] IN
                  /\ e.dir = dir /\ e.len >= 1
                  /\ startOf(e) >= 0 /\ startOf(e) + e.len <= N
                  /\ \A i \in startOf(e)..(startOf(e) + e.len - 1) : E(lineOf(e), i)
                  /\ startOf(e) = 0 \/ ~E(lineOf(e), startOf(e) - 1)
                  /\ startOf(e) + e.len = N \/ ~E(lineOf(e), startOf(e) + e.len)
            /\ \A l \in 0..(N - 1), i \in 0..(N - 1) :
                  E(l, i) => Cardinality({ j \in onLine(l) :
                                 startOf(doc[j]) <= i /\ i < startOf(doc[j]) + doc[j].len }) = 1
            /\ \A l \in 0..(N - 1) :
                  (\A i \in 0..(N - 1) : E(l, i))
                      => /\ Cardinality(onLine(l)) = 1
                         /\ \A j \in onLine(l) : startOf(doc[j]) = 0 /\ doc[j].len = N

\* rows of a fully dark grid: one full-width run, and shorter runs beside finders
C10_Witness ==
    /\ Generated /\ call.options = OptBarH /\ call.data.pattern = "full"
    /\ \E i \in 1..Len(call.result.doc) :
          LET e == call.result.doc[i] IN
          Layer(e) = "module" /\ "dir" \in DOMAIN e /\ e.len = CallCount
    /\ \E i \in 1..Len(call.result.doc) :
          LET e == call.result.doc[i] IN
          Layer(e) = "module" /\ "dir" \in DOMAIN e /\ e.len = CallCount - 14

----------------------------------------------------------------------------
(* Reading the pond paths of a document *)

\* the pond paths of the document drawn on the given layer
PondPaths(doc, layer) ==
    { doc[i] : i \in { j \in 1..Len(doc) :
                         "parts" \in DOMAIN doc[j] /\ doc[j].layer = layer } }

\* the sub-paths of the path drawn for the cell (r, c)
PartsAt(path, r, c) ==
    { path.parts[i] : i \in { j \in 1..Len(path.parts) :
                                path.parts[j].row = r /\ path.parts[j].col = c } }

CallModules == QRCreate(call.data)

CallEligible(r, c) ==
    /\ r \in 0..(CallCount - 1) /\ c \in 0..(CallCount - 1)
    /\ Eligible(CallModules, CallCount, CallOpts, r, c)

CallPond == Generated /\ Opt(CallOpts, "moduleStyle") = Str("pond")

CallEligibleCells ==
    { rc \in (0..(CallCount - 1)) \X (0..(CallCount - 1)) : CallEligible(rc[1], rc[2]) }

\* the grid cells an element covers: the cells of a pond path's sub-paths,
\* the cells of a bar's run, the cell of a single module
CellsOf(e) ==
    IF "parts" \in DOMAIN e THEN { << e.parts[i].row, e.parts[i].col >> : i \in 1..Len(e.parts) }
    ELSE IF "dir" \in DOMAIN e
    THEN (IF e.dir = "barH" THEN { << e.row, c >> : c \in e.col..(e.col + e.len - 1) }
          ELSE { << r, e.col >> : r \in e.row..(e.row + e.len - 1) })
    ELSE { << e.row, e.col >> }

\* C11: in the pond style, any two orthogonally adjacent eligible active cells
\* both have a sub-path, and both sub-paths reach the cell boundary they share:
\* neither is inset on that side, so the gap between them is zero
C11_PondNoSeam ==
    CallPond =>
        \A path \in PondPaths(call.result.doc, "module") :
            /\ CellsOf(path) = CallEligibleCells
            /\ \A k \in 1..Len(path.parts) :
                  LET p == path.parts[k]
                      e == pondEdges(p, path.scale)
                  IN  /\ CallEligible(p.row, p.col + 1) => e.ri = (p.col + 1) * CellUnits
                      /\ CallEligible(p.row, p.col - 1) => e.l = p.col * CellUnits
                      /\ CallEligible(p.row + 1, p.col) => e.b = (p.row + 1) * CellUnits
                      /\ CallEligible(p.row - 1, p.col) => e.t = p.row * CellUnits

\* a pond document at a module scale below 1 in which two eligible cells are
\* side by side and two are one above the other
C11_Witness ==
    /\ CallPond
    /\ Opt(CallOpts, "moduleScale").v < 100
    /\ PondPaths(call.result.doc, "module") # {}
    /\ \E r \in 0..(CallCount - 1), c \in 0..(CallCount - 1) :
          CallEligible(r, c) /\ CallEligible(r, c + 1) /\ CallEligible(r + 1, c)

\* no two eligible cells of the call's grid are orthogonally adjacent
CallNoAdjacent ==
    \A r \in 0..(CallCount - 1), c \in 0..(CallCount - 1) :
        CallEligible(r, c) => ~CallEligible(r, c + 1) /\ ~CallEligible(r + 1, c)

\* C12: in the pond style on a grid where no two eligible active cells are
\* orthogonally adjacent, every eligible cell has exactly one sub-path, the
\* path has no other sub-path, and each sub-path has its four edges inset by
\* the margin inside its own cell and its four corners rounded
C12_PondIsolatedCells ==
    (CallPond /\ CallNoAdjacent /\ CallEligibleCells # {}) =>
        /\ Cardinality(PondPaths(call.result.doc, "module")) = 1
        /\ \A path \in PondPaths(call.result.doc, "module") :
              /\ Len(path.parts) = Cardinality(CallEligibleCells)
              /\ \A rc \in CallEligibleCells :
                    /\ Cardinality(PartsAt(path, rc[1], rc[2])) = 1
                    /\ \A p \in PartsAt(path, rc[1], rc[2]) :
                          LET e == pondEdges(p, path.scale)
                              inset == pondInset(path.scale)
                          IN  /\ e.t = rc[1] * CellUnits + inset
                              /\ e.b = (rc[1] + 1) * CellUnits - inset
                              /\ e.l = rc[2] * CellUnits + inset
                              /\ e.ri = (rc[2] + 1) * CellUnits - inset
                              /\ e.tlR /\ e.trR /\ e.brR /\ e.blR

\* a pond document of a checkerboard at a module scale below 1, one of whose
\* eligible cells lies on the border of the grid
C12_Witness ==
    /\ CallPond /\ CallNoAdjacent
    /\ Opt(CallOpts, "moduleScale").v < 100
    /\ \E rc \in CallEligibleCells : rc[1] = 0
    /\ \E path \in PondPaths(call.result.doc, "module") : Len(path.parts) > 20

----------------------------------------------------------------------------
(* Reading the decorative layer of a document *)

\* the shape the latest generateShapeQR call drew
CallShape == resolveShape(call.lib, SHIELD_PATHS, DesignOf(CallOpts)).shape

\* the cells of the decorative grid the document draws
DecoCells(doc) == UNION { CellsOf(doc[i]) : i \in { j \in 1..Len(doc) : Layer(doc[j]) = "deco" } }

CallMargin == Coalesce(Opt(CallOpts, "decorativeSafeMargin"), Num(6)).v

\* The centre of the decorative cell rc lies in the data-area rectangle of the
\* call's shape expanded by the margin on its four sides.  A cell is
\* size * (N - 3) / N^2 wide; with all lengths in units of 1 / (2 N^2) the centre
\* of cell k is at (2k + 1) * size * (N - 3).
CentreInExpandedArea(rc) ==
    LET a  == CallShape.qrArea
        u  == 2 * CallCount * CallCount
        cx == (2 * rc[2] + 1) * a.size * (CallCount - 3)
        cy == (2 * rc[1] + 1) * a.size * (CallCount - 3)
    IN  /\ u * (a.x - CallMargin) <= cx /\ cx <= u * (a.x + a.size + CallMargin)
        /\ u * (a.y - CallMargin) <= cy /\ cy <= u * (a.y + a.size + CallMargin)

\* C13: no cell drawn in the decorative layer, as a module, within a bar or as
\* a pond sub-path, has its centre inside the data-area rectangle expanded by
\* the safety margin on all four sides
C13_DecorativeExclusion ==
    Generated => \A rc \in DecoCells(call.result.doc) : ~CentreInExpandedArea(rc)

\* a document with a positive margin whose decorative layer draws a cell right
\* beside one that the expanded rectangle excludes
C13_Witness ==
    /\ Generated
    /\ CallMargin > 0
    /\ \E rc \in DecoCells(call.result.doc) : CentreInExpandedArea(<< rc[1], rc[2] + 1 >>)
    /\ \E i \in 1..Len(call.result.doc) :
          Layer(call.result.doc[i]) = "deco" /\ "dir" \in DOMAIN call.result.doc[i]
                                             /\ call.result.doc[i].len > 1

----------------------------------------------------------------------------
(* Background and frame *)

CallDoc == call.result.doc

CallTransparent == Generated /\ Opt(CallColors, "background") = Str("transparent")

\* the elements of the document drawn on the given layer
OnLayer(doc, layer) == { doc[i] : i \in { j \in 1..Len(doc) : Layer(doc[j]) = layer } }

\* C14: with the background colour 'transparent', a document of a shape that is
\* not bare holds no background shape element, and a document of a bare shape
\* holds its background panel
C14_TransparentOmitsBackground ==
    CallTransparent =>
        IF CallShape.bare
        THEN \E e \in OnLayer(CallDoc, "background") : e.tag = "rect"
        ELSE OnLayer(CallDoc, "background") = {}

\* the elements of the document that refer to a clip path
ClipReferences(doc) ==
    { doc[i] : i \in { j \in 1..Len(doc) : "clip" \in DOMAIN doc[j] /\ doc[j].clip # Null } }

\* the glow filter and the elements that use it
GlowElements(doc) ==
    { doc[i] : i \in { j \in 1..Len(doc) :
        \/ doc[j].tag = "filter"
        \/ "filter" \in DOMAIN doc[j] /\ doc[j].filter # Null } }

\* C15: a document of a bare shape holds no element that refers to the outline
\* clip path, no outline and no inner-border stroke, no glow filter and no
\* decorative layer, whatever glowEffect, innerBorder and decorativeFill are
C15_BareDrawsNoFrame ==
    (Generated /\ CallShape.bare) =>
        /\ ClipReferences(CallDoc) = {}
        /\ OnLayer(CallDoc, "outline") = {} /\ OnLayer(CallDoc, "innerBorder") = {}
        /\ GlowElements(CallDoc) = {}
        /\ OnLayer(CallDoc, "deco") = {}

----------------------------------------------------------------------------
(* Preset colours *)

ColourFields ==
    {"background", "foreground", "outline", "finderOuter", "finderInner", "outlineWidth"}

\* the preset a name stands for: the preset of that name, 'cyber' when the
\* name is missing or names no preset
NamedPreset(name) ==
    IF name # Null /\ Has(COLOR_PRESETS, name) THEN Get(COLOR_PRESETS, name)
    ELSE Get(COLOR_PRESETS, "cyber")

\* resolveColors returns the named preset's six colours
ResolveColorsUsesPreset ==
    (call.op = "resolveColors" /\ call.design.customColors = Undefined) =>
        \A f \in ColourFields : call.result[f] = NamedPreset(call.design.preset)[f]

\* generateShapeQR draws with the named preset's six colours
GenerateUsesPreset ==
    (Generated /\ Opt(call.options, "colors").t = "undefined") =>
        LET p == NamedPreset(Selector(Opt(call.options, "preset"))) IN
        /\ Uses(CallDoc, "background", "fill") = {p.background}
        /\ Uses(CallDoc, "data", "fill") = {p.foreground}
        /\ Uses(CallDoc, "outer", "fill") = {p.finderOuter}
        /\ Uses(CallDoc, "inner", "fill") = {p.finderInner}
        /\ ~CallShape.bare =>
              /\ Uses(CallDoc, "outline", "stroke") = {p.outline}
              /\ Uses(CallDoc, "outline", "strokeWidth") = {p.outlineWidth}

\* C16: without custom colours, resolveColors returns and generateShapeQR draws
\* with exactly the six colours of the named preset, and of the preset 'cyber'
\* when the name is omitted or names no preset
C16_PresetColoursVerbatim == ResolveColorsUsesPreset /\ GenerateUsesPreset

----------------------------------------------------------------------------
(* Containment *)

\* the elements of the module group: finder shapes, data modules, bars, pond
GridElements(doc) == OnLayer(doc, "module") \cup OnLayer(doc, "finder")

\* The pixel box lies in qrArea shrunk by 1.5 modules on each side (a module
\* is qrArea.size / N wide); lengths over den = CellUnits * N^2.
InQuietArea(shape, n, px) ==
    LET den   == CellUnits * n * n
        quiet == 3 * (CellUnits \div 2) * n * shape.qrArea.size       \* 1.5 * size / N
    IN  /\ den * shape.qrArea.x + quiet <= px.l
        /\ px.l <= px.r
        /\ px.r <= den * (shape.qrArea.x + shape.qrArea.size) - quiet
        /\ den * shape.qrArea.y + quiet <= px.t
        /\ px.t <= px.b
        /\ px.b <= den * (shape.qrArea.y + shape.qrArea.size) - quiet

\* C17: for every built-in category and variation, every grid side and module
\* and finder scales in (0, 1], every data module, bar, pond sub-path and finder
\* shape of the document lies inside the shape's data-area rectangle, at least
\* 1.5 modules from each of its sides
C17_Containment ==
    Generated =>
        \A e \in GridElements(CallDoc) : \A box \in elementBoxes(e) :
            InQuietArea(CallShape, CallCount, pixelBox(dataGeometry(CallShape, CallCount), box))

\* a document of a shape other than the default whose module group holds a
\* full-scale bar that ends in the last column, and a solid finder shape
C17_Witness ==
    /\ Generated
    /\ CallShape.path # Get(Get(BUILTIN_SHAPE_LIBRARY, "shield").variations, "classic").path
    /\ \E e \in OnLayer(CallDoc, "module") :
          "dir" \in DOMAIN e /\ e.scale.v = 100 /\ e.col + e.len = CallCount
    /\ OnLayer(CallDoc, "finder") # {}

----------------------------------------------------------------------------
(* Output forms *)

\* the code points a sequence of bytes stands for in UTF-8: one for every
\* byte that is no continuation byte (10xxxxxx)
Utf8Decode(bytes) ==
    LET leads == SelectSeq([i \in 1..Len(bytes) |-> i], LAMBDA i : bytes[i] \notin 128..191)
        cont(i, k) == IF i + k <= Len(bytes) THEN bytes[i + k] % 64 ELSE 0
    IN  [n \in 1..Len(leads) |->
            LET i == leads[n]
                b == bytes[i]
            IN  IF b < 128 THEN b
                ELSE IF b < 224 THEN ((b % 32) * 64) + cont(i, 1)
                ELSE IF b < 240 THEN ((b % 16) * 4096) + (cont(i, 1) * 64) + cont(i, 2)
                ELSE ((b % 8) * 262144) + (cont(i, 1) * 4096) + (cont(i, 2) * 64) + cont(i, 3)]

Base64Value(c) ==
    IF c \in 65..90 THEN c - 65 ELSE IF c \in 97..122 THEN c - 71
    ELSE IF c \in 48..57 THEN c + 4 ELSE IF c = 43 THEN 62 ELSE IF c = 47 THEN 63 ELSE 0

\* the bytes a base64 string stands for
Base64Decode(chars) ==
    LET n   == Len(chars)
        pad == IF n > 1 /\ chars[n - 1] = 61 THEN 2 ELSE IF n > 0 /\ chars[n] = 61 THEN 1 ELSE 0
    IN  [k \in 1..(3 * (n \div 4) - pad) |->
            LET g == (k - 1) \div 3
                m == (k - 1) % 3
                triple == (Base64Value(chars[4 * g + 1]) * 262144)
                          + (Base64Value(chars[4 * g + 2]) * 4096)
                          + (Base64Value(chars[4 * g + 3]) * 64)
                          + Base64Value(chars[4 * g + 4])
            IN  CASE m = 0 -> triple \div 65536
                  [] m = 1 -> (triple \div 256) % 256
                  [] m = 2 -> triple % 256]

\* the latest call follows a kept call with the same arguments
Repeats(first, second) ==
    /\ memo # NoMemo /\ call # Idle
    /\ memo.op = first /\ call.op = second
    /\ memo.data = call.data /\ memo.options = call.options /\ memo.lib = call.lib

\* the part of a data URI after the prefix, when it has the prefix
UriPayload(uri) == SubSeq(uri, Len(DataPrefix) + 1, Len(uri))

HasDataPrefix(uri) ==
    Len(uri) >= Len(DataPrefix) /\ SubSeq(uri, 1, Len(DataPrefix)) = DataPrefix

\* C18: for the same data and options, generateShapeQRBuffer returns the UTF-8
\* bytes of the document generateShapeQR returns (they decode to its text and
\* no other byte sequence of that length and well-formedness does), and
\* generateShapeQRDataURI returns 'data:image/svg+xml;base64,' followed by the
\* base64 of those bytes, so that decoding it gives the document's text back;
\* a call that throws in one form throws in the others
C18_OutputFormsAgree ==
    /\ Repeats("generateShapeQR", "generateShapeQRBuffer") =>
          /\ call.result.status = memo.result.status
          /\ call.result.status = "ok" =>
                Utf8Decode(call.result.bytes) = svgText(memo.result.doc)
    /\ Repeats("generateShapeQRBuffer", "generateShapeQRDataURI") =>
          /\ call.host # "bare" => call.result.status = memo.result.status
          /\ call.result.status = "ok" =>
                /\ HasDataPrefix(call.result.uri)
                /\ Len(UriPayload(call.result.uri)) = 4 * CeilDiv(Len(memo.result.bytes), 3)
                /\ Base64Decode(UriPayload(call.result.uri)) = memo.result.bytes
    /\ (Repeats("generateShapeQR", "generateShapeQRDataURI") /\ call.result.status = "ok") =>
          /\ memo.result.status = "ok"
          /\ Utf8Decode(Base64Decode(UriPayload(call.result.uri)))
                 = svgText(memo.result.doc)

\* a document with characters of two, three and four bytes was generated, and
\* a browser then made the data URI of the same data and options
C18_Witness ==
    /\ Repeats("generateShapeQR", "generateShapeQRDataURI")
    /\ call.host = "browser" /\ call.result.status = "ok"
    /\ \E i \in 1..Len(svgText(memo.result.doc)) : svgText(memo.result.doc)[i] > 65535
    /\ \E i \in 1..Len(svgText(memo.result.doc)) : svgText(memo.result.doc)[i] \in 128..2047
    /\ Len(call.result.uri) > 100

----------------------------------------------------------------------------
(* Container geometry *)

StickerCall == call.op = "computeStickerGeometry"

\* width : height of a shield variation of the registry's built-in table
ShieldRatio(variant) ==
    LET v == Get(Get(BUILTIN_SHAPE_LIBRARY, "shield").variations, variant)
    IN  <<v.width, v.height>>

\* the canvas has the ratio w : h
CanvasRatio(geo, ratio) == geo.canvasW * ratio[2] = geo.canvasH * ratio[1]

\* the same configuration with another inner container
WithInner(cfg, shape, variant) ==
    [cfg EXCEPT !.innerShape = shape, !.innerShieldVariant = variant]

\* C19: the canvas of computeStickerGeometry is 1:1 for an outer square or
\* circle, 3:4 for portrait, 4:3 for landscape and, for an outer shield, the
\* width:height of the chosen outer shield variant; and it is the canvas the
\* same configuration gets with any other inner shape and inner variant.
C19_CanvasAspectByOuterShape ==
    StickerCall =>
        LET cfg == call.cfg
            geo == call.result
        IN  /\ cfg.outerShape \in {"square", "circle"} => CanvasRatio(geo, <<1, 1>>)
            /\ cfg.outerShape = "portrait" => CanvasRatio(geo, <<3, 4>>)
            /\ cfg.outerShape = "landscape" => CanvasRatio(geo, <<4, 3>>)
            /\ cfg.outerShape = "shield" =>
                    CanvasRatio(geo, ShieldRatio(cfg.outerShieldVariant))
            /\ \A shape \in {"circle", "square", "portrait", "landscape", "shield"},
                  variant \in {"classic", "badge", "modern", "emblem"} :
                    LET other == computeStickerGeometry(WithInner(cfg, shape, variant))
                    IN  other.canvasW = geo.canvasW /\ other.canvasH = geo.canvasH

\* an outer portrait around an inner emblem shield: the canvas stays 3:4
C19_Witness ==
    /\ StickerCall
    /\ call.cfg.outerShape = "portrait"
    /\ call.cfg.innerShape = "shield"
    /\ call.cfg.innerShieldVariant = "emblem"
    /\ call.result.innerAspect = <<300, 350>>
    /\ CanvasRatio(call.result, <<3, 4>>)

----------------------------------------------------------------------------
(* The pond edge rule *)

\* the four edges of the sub-path drawn for the cell (r, c) follow its
\* neighbours (tA, rA, bA, lA: the neighbour above, to the right, below, to
\* the left is an eligible cell of the grid): inset by the margin where the
\* neighbour is not eligible, on the cell boundary where it is
PondEdgesFollowNeighbours(e, inset, r, c, tA, rA, bA, lA) ==
    /\ e.t = IF tA THEN r * CellUnits ELSE r * CellUnits + inset
    /\ e.b = IF bA THEN (r + 1) * CellUnits ELSE (r + 1) * CellUnits - inset
    /\ e.l = IF lA THEN c * CellUnits ELSE c * CellUnits + inset
    /\ e.ri = IF rA THEN (c + 1) * CellUnits ELSE (c + 1) * CellUnits - inset

\* C20: in the pond style every eligible active cell has a sub-path; each of
\* its edges whose neighbour is inactive or outside the grid is inset by the
\* margin and BOTH corners at the ends of that edge are rounded; each edge
\* whose neighbour is active lies on the cell boundary, not inset
C20_PondEdgeRule ==
    CallPond =>
        \A path \in PondPaths(call.result.doc, "module") :
            /\ CellsOf(path) = CallEligibleCells
            /\ \A k \in 1..Len(path.parts) :
                  LET p == path.parts[k]
                      e == pondEdges(p, path.scale)
                      tA == CallEligible(p.row - 1, p.col)
                      rA == CallEligible(p.row, p.col + 1)
                      bA == CallEligible(p.row + 1, p.col)
                      lA == CallEligible(p.row, p.col - 1)
                  IN  /\ PondEdgesFollowNeighbours(e, pondInset(path.scale), p.row, p.col,
                                                   tA, rA, bA, lA)
                      /\ ~tA => e.tlR /\ e.trR
                      /\ ~rA => e.trR /\ e.brR
                      /\ ~bA => e.brR /\ e.blR
                      /\ ~lA => e.blR /\ e.tlR

\* C20 as the code has it: the edges as above, and a corner is rounded
\* exactly when both edges that meet in it are inset, that is when neither of
\* the two neighbours across those edges is an eligible active cell
C20_PondEdgeRuleAmended ==
    CallPond =>
        \A path \in PondPaths(call.result.doc, "module") :
            /\ CellsOf(path) = CallEligibleCells
            /\ \A k \in 1..Len(path.parts) :
                  LET p == path.parts[k]
                      e == pondEdges(p, path.scale)
                      tA == CallEligible(p.row - 1, p.col)
                      rA == CallEligible(p.row, p.col + 1)
                      bA == CallEligible(p.row + 1, p.col)
                      lA == CallEligible(p.row, p.col - 1)
                  IN  /\ PondEdgesFollowNeighbours(e, pondInset(path.scale), p.row, p.col,
                                                   tA, rA, bA, lA)
                      /\ e.tlR <=> (~tA /\ ~lA)
                      /\ e.trR <=> (~tA /\ ~rA)
                      /\ e.brR <=> (~bA /\ ~rA)
                      /\ e.blR <=> (~bA /\ ~lA)

\* a pond document at a module scale below 1 with a cell whose upper
\* neighbour is inactive and whose left neighbour is active: its top edge is
\* inset, its left edge is flush, and the corner between them is square
C20_Witness ==
    /\ CallPond
    /\ Opt(CallOpts, "moduleScale").v < 100
    /\ \E path \in PondPaths(call.result.doc, "module") :
       \E rc \in CallEligibleCells :
       \E p \in PartsAt(path, rc[1], rc[2]) :
          LET e == pondEdges(p, path.scale) IN
          /\ ~CallEligible(rc[1] - 1, rc[2]) /\ CallEligible(rc[1], rc[2] - 1)
          /\ e.t = rc[1] * CellUnits + pondInset(path.scale)
          /\ e.l = rc[2] * CellUnits
          /\ ~e.tlR

----------------------------------------------------------------------------
(* Layer order *)

\* a definition: a clip path, a gradient or a filter
IsDefinition(e) == e.tag \in {"clipPath", "linearGradient", "radialGradient", "filter"}

\* the place of a drawn element in the order of the layers
LayerRank(e) ==
    CASE Layer(e) = "background" -> 1
      [] Layer(e) = "quietZone" -> 2
      [] Layer(e) \in {"finder", "module"} -> 3
      [] Layer(e) = "deco" -> 4
      [] Layer(e) = "innerBorder" -> 5
      [] Layer(e) = "outline" -> 6

\* the positions in the document of the definitions, and of the drawn elements
DefinitionPositions(doc) == { i \in 1..Len(doc) : IsDefinition(doc[i]) }
DrawnPositions(doc) == { i \in 1..Len(doc) : Layer(doc[i]) # Null }

\* C21: in every generated document every definition (outline clip path,
\* inset clip path, gradient, glow filter) comes before every drawn element,
\* and the drawn elements follow the order background shape, quiet-zone
\* panel, module layer, decorative layer, inner border stroke, outline stroke
C21_LayerOrder ==
    Generated =>
        LET drawn == SelectSeq(CallDoc, LAMBDA e : Layer(e) # Null) IN
        /\ \A i \in DefinitionPositions(CallDoc) :
           \A j \in DrawnPositions(CallDoc) : i < j
        /\ \A k \in 1..(Len(drawn) - 1) : LayerRank(drawn[k]) <= LayerRank(drawn[k + 1])

----------------------------------------------------------------------------
(* Centre clearing *)

\* the dark cells of the call's grid outside the finder blocks
CallDataCells ==
    { rc \in (0..(CallCount - 1)) \X (0..(CallCount - 1)) :
        /\ modulesGet(CallModules, rc[1], rc[2])
        /\ classifyFinderModule(rc[1], rc[2], getFinderPatternPositions(CallCount)) = Null }

\* the cells outside the finder blocks that the module group of the document covers
DrawnDataCells(doc) ==
    { rc \in UNION { CellsOf(e) : e \in OnLayer(doc, "module") } :
        classifyFinderModule(rc[1], rc[2], getFinderPatternPositions(CallCount)) = Null }

\* The centre of the cell is closer than centerSize * dataSize to the centre of
\* the data area.  In half cells the centre of cell (r, c) is (2c + 1, 2r + 1),
\* the centre of the area (N, N) and the radius 2 * N * centerSize.
NearCentre(rc) ==
    LET dx == 2 * rc[2] + 1 - CallCount
        dy == 2 * rc[1] + 1 - CallCount
        radius100 == 2 * CallCount * Opt(CallOpts, "centerSize").v      \* 100 * radius
    IN  radius100 > 0 /\ 10000 * (dx * dx + dy * dy) < radius100 * radius100

CallCentreClear == Generated /\ IsTruthy(Opt(CallOpts, "centerClear"))

\* the cell counts as active for its neighbours in the pond style
ActiveForPond(r, c) ==
    /\ << r, c >> \in CallDataCells
    /\ ~(CallCentreClear /\ NearCentre(<< r, c >>))

----------------------------------------------------------------------------
(* Gradient stops *)

\* the call passes a gradient with at least one colour and without stops
CallGradient == ObjOrEmpty(Opt(CallOpts, "gradient"))

CallEvenGradient ==
    /\ call.op = "generateShapeQR"
    /\ IsTruthy(Opt(CallOpts, "gradient"))
    /\ Opt(CallGradient, "colors").t = "array"
    /\ Len(Opt(CallGradient, "colors").v) >= 1
    /\ ~IsTruthy(Opt(CallGradient, "stops"))

\* the gradient definitions of a document
GradientElements(doc) ==
    { doc[i] : i \in { j \in 1..Len(doc) :
                         doc[j].tag \in {"linearGradient", "radialGradient"} } }

\* off = Math.round(100 * i / (k - 1)): off - 1/2 <= 100 i / (k - 1) < off + 1/2
IsRoundedShare(off, i, k) ==
    /\ (2 * off - 1) * (k - 1) <= 200 * i
    /\ 200 * i < (2 * off + 1) * (k - 1)

\* C23: a gradient of k >= 1 colours without stops gives a document with one
\* gradient definition of k stops; every offset is a number between 0 and 100,
\* the first is 0, the last is 100 and stop i is round(100 * i / (k - 1))
C23_EvenStops ==
    CallEvenGradient =>
        /\ call.result.status = "ok"
        /\ Cardinality(GradientElements(CallDoc)) = 1
        /\ \A g \in GradientElements(CallDoc) :
              LET k == Len(Opt(CallGradient, "colors").v) IN
              /\ Len(g.stops) = k
              /\ \A i \in 1..k :
                    /\ g.stops[i].offset.t = "number"
                    /\ g.stops[i].offset.v \in 0..100
                    /\ k > 1 => IsRoundedShare(g.stops[i].offset.v, i - 1, k)
              /\ g.stops[1].offset = Num(0)
              /\ g.stops[k].offset = Num(100)

----------------------------------------------------------------------------
(* The legacy shield accessors and the registry *)

\* the call selects a shape through the legacy `shape` key alone
LegacyOnly(design) ==
    /\ design # NilDesign
    /\ Field(design, "shapeCategory") = Null
    /\ Field(design, "shapeVariation") = Null
    /\ Field(design, "shape") # Null

\* the config names no shape at all
NoSelector(design) ==
    /\ Field(design, "shapeCategory") = Null
    /\ Field(design, "shapeVariation") = Null
    /\ Field(design, "shape") = Null

\* C24: whatever registerShape calls came before, resolveShape({shape: v})
\* returns the registry's current shield variation v for every v the shield
\* category now holds, resolveShape of a config without selectors returns the
\* current shield/classic, and getShieldShapes lists the current shield keys
C24_LegacyReadsCurrentRegistry ==
    /\ (call.op = "resolveShape" /\ LegacyOnly(call.design)
            /\ Has(ShieldVariations, call.design.shape)) =>
          call.result = Resolved("shield", call.design.shape,
                                 Get(ShieldVariations, call.design.shape))
    /\ (call.op = "resolveShape" /\ NoSelector(call.design)
            /\ Has(ShieldVariations, "classic")) =>
          call.result = Resolved("shield", "classic", Get(ShieldVariations, "classic"))
    /\ call.op = "getShieldShapes" => call.result = Keys(ShieldVariations)

----------------------------------------------------------------------------
(* The legacy selector in generateShapeQR *)

\* the caller's options name a shape through the `shape` key alone
CallLegacyOnly ==
    /\ call.op = "generateShapeQR"
    /\ LegacyOnly(DesignOf(call.options))

\* the outlines the document is clipped to
ClipOutlines(doc) ==
    { doc[i].path : i \in { j \in 1..Len(doc) :
                              doc[j].tag = "clipPath" /\ doc[j].id = "shapeClip" } }

\* C25: when the caller's options name a shape only through the legacy
\* `shape` key, generateShapeQR renders the document with the shape that
\* resolveShape returns for those same options
C25_GenerateHonoursLegacySelector ==
    CallLegacyOnly =>
        LET resolved == resolveShape(call.lib, SHIELD_PATHS, DesignOf(call.options)) IN
        /\ call.result.status = "ok"
        /\ ClipOutlines(CallDoc) = { resolved.shape.path }
        /\ CallDoc[1].width = resolved.shape.width
        /\ CallDoc[1].height = resolved.shape.height

----------------------------------------------------------------------------
(* The resolved triple *)

\* C26: the triple resolveShape returns is consistent with the registry: the
\* returned category is a category of the registry, the returned variation
\* is one of its variation keys, and the returned shape is the entry they name
C26_ResolvedTripleConsistent ==
    (call.op = "resolveShape" /\ call.result.status = "ok") =>
        /\ Has(SHAPE_LIBRARY, call.result.category)
        /\ Has(VariationsOf(Get(SHAPE_LIBRARY, call.result.category)), call.result.variation)
        /\ Get(VariationsOf(Get(SHAPE_LIBRARY, call.result.category)), call.result.variation)
              = call.result.shape

----------------------------------------------------------------------------
(* Decorative density *)

\* the options without their decorativeDensity entry
WithoutDensity(options) == SelectSeq(options, LAMBDA kv : kv.k # "decorativeDensity")

\* the density the caller passed, in hundredths
DensityOf(options) == Opt(options, "decorativeDensity").v

\* the kept call and the latest call are generateShapeQR calls that differ in
\* nothing but the density, and the kept one has the lower density
DensityPair ==
    /\ memo.op = "generateShapeQR" /\ call.op = "generateShapeQR"
    /\ memo.result.status = "ok" /\ call.result.status = "ok"
    /\ memo.data = call.data /\ memo.lib = call.lib
    /\ Has(memo.options, "decorativeDensity") /\ Has(call.options, "decorativeDensity")
    /\ WithoutDensity(memo.options) = WithoutDensity(call.options)
    /\ 0 <= DensityOf(memo.options)
    /\ DensityOf(memo.options) <= DensityOf(call.options)
    /\ DensityOf(call.options) <= 100

\* C27: for the same shape and grid and densities 0 <= d <= d' <= 1, every
\* decorative cell drawn at density d is also drawn at density d'
C27_DensityMonotone ==
    DensityPair => DecoCells(memo.result.doc) \subseteq DecoCells(call.result.doc)

----------------------------------------------------------------------------
(* Interleaved registration *)

\* the document the registry `lib` determines for a call
DocumentFor(c, lib) ==
    generateShapeQR(lib, SHIELD_PATHS, DEFAULT_OPTIONS, COLOR_PRESETS, c.data, c.options)

\* a document has been delivered to a caller
Delivered == memo.op = "generateShapeQR" /\ "settledLib" \in DOMAIN memo

----------------------------------------------------------------------------
(* Every cell drawn once *)

\* the number of cells an element of the module group covers, a pond path
\* counting once for each of its sub-paths
CoverOf(e) == IF "parts" \in DOMAIN e THEN Len(e.parts) ELSE Cardinality(CellsOf(e))

\* the sum of CoverOf over the elements lo..hi of a sequence, by halves
RECURSIVE CoverSum(_, _, _)
CoverSum(els, lo, hi) ==
    IF lo > hi THEN 0
    ELSE IF lo = hi THEN CoverOf(els[lo])
    ELSE CoverSum(els, lo, (lo + hi) \div 2) + CoverSum(els, (lo + hi) \div 2 + 1, hi)

CallFinderType(rc) == classifyFinderModule(rc[1], rc[2], getFinderPatternPositions(CallCount))

CallSolidFinders == Opt(CallOpts, "finderPattern") = Str("solid")

\* the cells the module group has to cover: the dark cells outside the
\* finder blocks that are not cleared and, in pattern mode, the dark outer and
\* inner cells of the finder blocks
CellsToDraw ==
    { rc \in (0..(CallCount - 1)) \X (0..(CallCount - 1)) :
        /\ modulesGet(CallModules, rc[1], rc[2])
        /\ IF CallFinderType(rc) = Null THEN ~(CallCentreClear /\ NearCentre(rc))
           ELSE ~CallSolidFinders /\ CallFinderType(rc) \in {"outer", "inner"} }

\* the colour of the finder pass for a cell of a finder block
FinderColour(rc) ==
    Show(OrV(Opt(CallColors, IF CallFinderType(rc) = "outer" THEN "finderOuter"
                             ELSE "finderInner"),
             Opt(CallColors, "foreground")))

\* C29: the module group covers exactly the cells it has to, each of them
\* once: no inactive cell, no finder space cell and no cleared cell is covered,
\* no cell is covered by two elements, bar runs or pond sub-paths; a cell of a
\* finder block is covered only in pattern mode, by a single module in the
\* finder colour, and never by a bar or a pond path
C29_EachCellDrawnOnce ==
    Generated =>
        LET group == SelectSeq(CallDoc, LAMBDA e : Layer(e) = "module")
            covered == UNION { CellsOf(group[i]) : i \in 1..Len(group) }
        IN  /\ covered = CellsToDraw
            /\ CoverSum(group, 1, Len(group)) = Cardinality(covered)
            /\ \A i \in 1..Len(group) :
                  \A rc \in CellsOf(group[i]) :
                     CallFinderType(rc) # Null =>
                        /\ "parts" \notin DOMAIN group[i] /\ "dir" \notin DOMAIN group[i]
                        /\ group[i].fill = FinderColour(rc)

\* a pattern-mode document of a grid with dark cells next to a finder block:
\* finder modules and data elements are both in the module group
C29_Witness ==
    /\ Generated /\ ~CallSolidFinders
    /\ \E rc \in CellsToDraw : CallFinderType(rc) = "inner"
    /\ \E rc \in CellsToDraw : CallFinderType(rc) = Null /\ rc[1] = 3 /\ rc[2] = 7
    /\ Opt(CallColors, "finderOuter") # Opt(CallColors, "foreground")


----------------------------------------------------------------------------
(* Saved designs: DEFAULT_DESIGN and serializeDesign *)

DEFAULT_DESIGN == <<
    KV("shapeCategory", Str("shield")),
    KV("shapeVariation", Str("classic")),
    KV("shape", NullV),
    KV("preset", Str("cyber")),
    KV("moduleStyle", Str("circle")),
    KV("moduleScale", Num(82)),
    KV("finderScale", Num(100)),
    KV("finderPattern", Str("pattern")),
    KV("finderOuterStyle", Str("rounded")),
    KV("finderInnerStyle", Str("rounded")),
    KV("glowEffect", Bool(TRUE)),
    KV("innerBorder", Bool(FALSE)),
    KV("centerClear", Bool(FALSE)),
    KV("centerSize", Num(22)),
    KV("decorativeFill", Bool(TRUE)),
    KV("decorativeDensity", Num(35)),
    KV("decorativeOpacity", Num(25)),
    KV("decorativeSafeMargin", Num(6)),
    KV("decorativeShieldInset", Num(8)),
    KV("decorativeScale", Num(65)),
    KV("gradient", NullV),
    KV("customColors", NullV)
>>

\* the object literal `out`, then the preset / colors branch, then the gradient
serializeDesign(design) ==
    LET out == <<
            KV("shapeCategory", OrV(Opt(design, "shapeCategory"), Str("shield"))),
            KV("shapeVariation", OrV(Opt(design, "shapeVariation"), Str("classic"))),
            KV("moduleStyle", OrV(Opt(design, "moduleStyle"), Str("circle"))),
            KV("finderScale", Coalesce(Opt(design, "finderScale"), Num(100))),
            KV("finderPattern", OrV(Opt(design, "finderPattern"), Str("pattern"))),
            KV("finderOuterStyle", OrV(Opt(design, "finderOuterStyle"), Str("rounded"))),
            KV("finderInnerStyle", OrV(Opt(design, "finderInnerStyle"), Str("rounded"))),
            KV("glowEffect", Bool(IsTruthy(Opt(design, "glowEffect")))),
            KV("innerBorder", Bool(IsTruthy(Opt(design, "innerBorder")))),
            KV("centerClear", Bool(IsTruthy(Opt(design, "centerClear")))),
            KV("decorativeFill", Coalesce(Opt(design, "decorativeFill"), Bool(TRUE))),
            KV("decorativeDensity", OrV(Opt(design, "decorativeDensity"), Num(35))),
            KV("decorativeOpacity", Coalesce(Opt(design, "decorativeOpacity"), Num(25))),
            KV("decorativeSafeMargin", Coalesce(Opt(design, "decorativeSafeMargin"), Num(6))),
            KV("decorativeShieldInset", Coalesce(Opt(design, "decorativeShieldInset"), Num(8))),
            KV("decorativeScale", Coalesce(Opt(design, "decorativeScale"), Num(65))) >>
        customColors == Opt(design, "customColors")
        withColors ==
            IF IsTruthy(Opt(design, "preset")) /\ ~IsTruthy(customColors)
            THEN Append(out, KV("preset", Opt(design, "preset")))
            ELSE IF IsTruthy(customColors)
                 THEN Append(out, KV("colors", Obj("out.colors", ObjOrEmpty(customColors))))
                 ELSE out
    IN IF IsTruthy(Opt(design, "gradient"))
       THEN Append(withColors,
                   KV("gradient", Obj("out.gradient", ObjOrEmpty(Opt(design, "gradient")))))
       ELSE withColors

\* DEFAULT_DESIGN with some of its keys set by the user
DesignWith(changes) == Spread(DEFAULT_DESIGN, changes)

\* the designs a caller saves: the default one, a smaller module scale, a
\* centre clearing of its own size, custom colours, density 0, a gradient,
\* and a design that names a preset and nothing else
DesignInputs ==
    { DEFAULT_DESIGN,
      DesignWith(<< KV("moduleScale", Num(60)) >>),
      DesignWith(<< KV("centerClear", Bool(TRUE)), KV("centerSize", Num(35)),
                    KV("decorativeFill", Bool(FALSE)) >>),
      DesignWith(<< KV("preset", NullV), KV("customColors", CustomColorsOption) >>),
      DesignWith(<< KV("decorativeDensity", Num(0)) >>),
      DesignWith(<< KV("glowEffect", Bool(FALSE)), KV("gradient", Opt(OptGradient, "gradient")) >>),
      << KV("preset", Str("fire")) >> }

\* what the caller holds once a design has been saved: the design and its
\* serialized form, each of them an options object for generateShapeQR
SavedInputs ==
    IF memo.op = "serializeDesign"
    THEN { [data |-> Data(1, p), options |-> o] :
             p \in {"checker", "stripes"}, o \in {memo.design, memo.result} }
    ELSE {}

\* serializeDesign(design), of a fresh design or of the saved form
SerializeDesign(designs) ==
    /\ call = Idle
    /\ \E d \in designs \cup {in.options : in \in SavedInputs} :
          call' = [op |-> "serializeDesign", design |-> d, result |-> serializeDesign(d)]
    /\ UNCHANGED <<SHAPE_LIBRARY, SHIELD_PATHS, DEFAULT_OPTIONS, COLOR_PRESETS,
                   memo, everPresent, nRegistered>>

\* the caller stores the serialized design next to the design it came from
KeepDesign ==
    /\ call # Idle
    /\ call.op = "serializeDesign"
    /\ memo' = call
    /\ call' = Idle
    /\ UNCHANGED <<SHAPE_LIBRARY, SHIELD_PATHS, DEFAULT_OPTIONS, COLOR_PRESETS,
                   everPresent, nRegistered>>

NextDesign ==
    \/ SerializeDesign(DesignInputs)
    \/ KeepDesign
    \/ GenerateShapeQR(SavedInputs)
    \/ Return

SpecDesign == Init /\ [][NextDesign]_vars

\* a design whose colours come from a preset is an options object as it stands
IsPlainDesign(design) == ~IsTruthy(Opt(design, "customColors"))

\* the document generateShapeQR draws from the saved form of the design
SavedDocument ==
    generateShapeQR(call.lib, SHIELD_PATHS, DEFAULT_OPTIONS, COLOR_PRESETS,
                    call.data, memo.result)

\* C30: rendering serializeDesign(d) gives the same document as rendering d,
\* and serializing an already serialized design changes nothing.
C30_SerializeKeepsRendering ==
    /\ call.op = "serializeDesign" => serializeDesign(call.result) = call.result
    /\ (/\ call.op = "generateShapeQR"
        /\ memo.op = "serializeDesign"
        /\ memo.design \in DesignInputs
        /\ IsPlainDesign(memo.design)
        /\ call.options = memo.design)
       => call.result = SavedDocument

====
